---------------------------- MODULE Spec2Model ----------------------------
(***************************************************************************)
(* Model of the scheduling engine of smartport-ai-scheduler                *)
(* (src/services/aiService.ts, second half: "schedulingAlgorithms").       *)
(*                                                                         *)
(* Conventions                                                             *)
(*  - A time string "HH:MM" is the pair <<h, m>> of the two numbers that   *)
(*    `split(':').map(Number)` reads from it and that the template string  *)
(*    `${pad(h)}:${pad(m)}` writes into it; padStart does not clamp, so a  *)
(*    negative field stays negative ("-1:-3" is <<-1, -3>>).               *)
(*  - Minutes that can be fractional (the ETA bias) are kept in tenths of  *)
(*    a minute; metres of draft/depth/tide in tenths of a metre; fuel in   *)
(*    tenths of a ton; speed in tenths of a knot.                          *)
(*  - Math.random() is a nondeterministic draw from a finite grid.         *)
(***************************************************************************)
EXTENDS Integers, Sequences, FiniteSets, TLC

VARIABLES
  pc,                          \* position of the run: "start", ..., "done"
  etaArgs, etaResult,          \* correctETA: arguments and returned object
  eotArgs, eotResult,          \* calculateEOT
  vspArgs, vspResult,          \* calculateVSP
  slotArgs, candidates,        \* generateCandidateBerthSlots
  detectArgs, conflictInfo,    \* detectChannelConflicts
  vnsArgs,                     \* variableNeighborhoodSearch: ships, maxIterations
                               \* and the initial solution as it was passed
  initialSolution,             \* the caller's solution object, as it is now
  currentSolution,             \* let currentSolution
  currentIsInitial,            \* currentSolution is still the caller's object
  bestSolution,                \* let bestSolution
  iter,                        \* the loop counter of the run
  vnsResult,                   \* the returned solution
  paretoArgs, paretoFront,     \* calculateParetoFront
  reverseArgs, reverseResult,  \* reverseOperator
  optArgs,                     \* the optimization step of App.tsx: the ships
                               \* and the occupied berths it starts from
  optShips,                    \* the `ships` state of App.tsx
  appBerths,                   \* the `berths` state of App.tsx
  isSimulating,                \* the `isSimulating` state of App.tsx
  timers                       \* the setTimeout callbacks of the execution
                               \* step that have not run, in firing order

etaVars == <<etaArgs, etaResult>>
eotVars == <<eotArgs, eotResult>>
vspVars == <<vspArgs, vspResult>>
slotVars == <<slotArgs, candidates>>
detectVars == <<detectArgs, conflictInfo>>
vnsVars == <<vnsArgs, initialSolution, currentSolution, currentIsInitial,
             bestSolution, iter, vnsResult>>
paretoVars == <<paretoArgs, paretoFront>>
reverseVars == <<reverseArgs, reverseResult>>
optVars == <<optArgs, optShips>>
execVars == <<appBerths, isSimulating, timers>>
vars == <<pc, etaVars, eotVars, vspVars, slotVars, detectVars, vnsVars,
          paretoVars, reverseVars, optVars, execVars>>

\* What an action of one component leaves alone.
exceptETA == <<eotVars, vspVars, slotVars, detectVars, vnsVars, paretoVars,
    reverseVars, optVars, execVars>>
exceptEOT == <<etaVars, vspVars, slotVars, detectVars, vnsVars, paretoVars,
    reverseVars, optVars, execVars>>
exceptVSP == <<etaVars, eotVars, slotVars, detectVars, vnsVars, paretoVars,
    reverseVars, optVars, execVars>>
exceptSlots == <<etaVars, eotVars, vspVars, detectVars, vnsVars, paretoVars,
    reverseVars, optVars, execVars>>
exceptDetect == <<etaVars, eotVars, vspVars, slotVars, vnsVars, paretoVars,
    reverseVars, optVars, execVars>>
exceptVNS == <<etaVars, eotVars, vspVars, slotVars, detectVars, paretoVars,
    reverseVars, optVars, execVars>>
exceptPareto == <<etaVars, eotVars, vspVars, slotVars, detectVars, vnsVars,
    reverseVars, optVars, execVars>>

exceptReverse == <<etaVars, eotVars, vspVars, slotVars, detectVars, vnsVars,
    paretoVars, optVars, execVars>>
\* The optimization step runs the search, so it shares the search's state.
exceptOpt == <<etaVars, eotVars, vspVars, slotVars, detectVars, paretoVars,
    reverseVars, execVars>>
\* The execution step works on the `ships` state the optimization step left.
exceptExec == <<etaVars, eotVars, vspVars, slotVars, detectVars, vnsVars,
    paretoVars, reverseVars, optArgs>>

None == "none"

-----------------------------------------------------------------------------
(* JavaScript arithmetic                                                   *)

\* a % b of JavaScript for b > 0: the remainder has the sign of the dividend.
JsRem(a, b) == IF a >= 0 THEN a % b ELSE -((-a) % b)

\* Math.floor(a / b) for integers a and b > 0.
Floor(a, b) == a \div b

\* Math.round(n / d) for d > 0: rounds half towards +infinity.
Round(n, d) == (2 * n + d) \div (2 * d)

Max(a, b) == IF a >= b THEN a ELSE b
Min(a, b) == IF a <= b THEN a ELSE b
Abs(a) == IF a >= 0 THEN a ELSE -a

\* const [h, m] = time.split(':').map(Number); h * 60 + m
ParseMinutes(t) == t[1] * 60 + t[2]

-----------------------------------------------------------------------------
(* Ship types (src/types.ts)                                               *)

CONTAINER == "container"
BULK == "bulk"
TANKER == "tanker"
ShipTypes == {CONTAINER, BULK, TANKER}

-----------------------------------------------------------------------------
(* 1. correctETA                                                           *)

MinutesPerHour == 60
HoursPerDay == 24
MinutesPerDay == HoursPerDay * MinutesPerHour

TypeBias(shipType) ==
  IF shipType = TANKER THEN 15
  ELSE IF shipType = BULK THEN 10
  ELSE 5

\* Math.max(0, (shipLength - 150) / 10) minutes, in tenths of a minute.
LengthBias10(shipLength) == Max(0, shipLength - 150)

\* const totalBias = typeBias + lengthBias + randomBias + historicalBias
TotalBias10(a) ==
  TypeBias(a.shipType) * 10 + LengthBias10(a.shipLength)
    + a.randomBias10 + a.historicalBias10

\* Math.floor(correctedTime / 60) % 24; the % keeps the sign of a negative
\* dividend.
CorrectedHours(correctedTime10) ==
  JsRem(Floor(correctedTime10, MinutesPerHour * 10), HoursPerDay)

\* Math.floor(correctedTime % 60)
CorrectedMinutes(correctedTime10) ==
  Floor(JsRem(correctedTime10, MinutesPerHour * 10), 10)

correctETA(a) ==
  LET originalTime == ParseMinutes(a.originalETA)
      totalBias10 == TotalBias10(a)
      correctedTime10 == originalTime * 10 + totalBias10
  IN [ correctedETA |-> << CorrectedHours(correctedTime10),
                           CorrectedMinutes(correctedTime10) >>,
       bias10 |-> totalBias10,
       isDelayed |-> totalBias10 > 300 ]

\* Declared ETAs, lengths, random draws and historical biases that are tried.
EtaTimes == { <<h, m>> : h \in {0, 10, 23}, m \in {0, 2, 4, 15, 57, 59} }
EtaLengths == {100, 150, 200, 399}
RandomBias10s == {-100, -64, -51, -50, 0, 37, 99}
HistoricalBias10s == {-200, 0, 250}

InitETA ==
  /\ etaArgs \in [ originalETA : EtaTimes, shipType : ShipTypes,
                   shipLength : EtaLengths, randomBias10 : RandomBias10s,
                   historicalBias10 : HistoricalBias10s ]
  /\ etaResult = None

CorrectETA ==
  /\ pc = "start"
  /\ pc' = "done"
  /\ etaResult' = correctETA(etaArgs)
  /\ UNCHANGED <<etaArgs, exceptETA>>

-----------------------------------------------------------------------------
(* 2. calculateEOT                                                         *)

InspectionTime(shipType, shipLength) ==
  IF shipType = TANKER THEN 60
  ELSE IF shipLength > 300 THEN 45
  ELSE IF shipLength < 150 THEN 20
  ELSE 30

PilotPrepTime(shipLength) ==
  IF shipLength > 300 THEN 25
  ELSE IF shipLength < 150 THEN 10
  ELSE 15

\* A wrap at midnight that was forgotten: Math.floor(eotTime / 60) alone.
EotHours_NoWrap(eotTime) == Floor(eotTime, MinutesPerHour)

\* Math.floor(eotTime / 60) % 24
EotHours(eotTime) == JsRem(Floor(eotTime, MinutesPerHour), HoursPerDay)

\* Math.floor(eotTime % 60)
EotMinutes(eotTime) == JsRem(eotTime, MinutesPerHour)

calculateEOT(a) ==
  LET correctedTime == ParseMinutes(a.correctedETA)
      inspectionTime == InspectionTime(a.shipType, a.shipLength)
      pilotPrepTime == PilotPrepTime(a.shipLength)
      eotTime == correctedTime + inspectionTime + pilotPrepTime
  IN [ eot |-> <<EotHours(eotTime), EotMinutes(eotTime)>>,
       inspectionTime |-> inspectionTime,
       pilotPrepTime |-> pilotPrepTime ]

EotLengths == {120, 149, 150, 300, 301, 399}

InitEOT ==
  /\ eotArgs \in [ correctedETA : (0 .. HoursPerDay - 1) \X (0 .. MinutesPerHour - 1),
                   shipType : ShipTypes, shipLength : EotLengths ]
  /\ eotResult = None

CalculateEOT ==
  /\ pc = "start"
  /\ pc' = "done"
  /\ eotResult' = calculateEOT(eotArgs)
  /\ UNCHANGED <<eotArgs, exceptEOT>>

-----------------------------------------------------------------------------
(* 3. calculateVSP                                                         *)

BaseSpeed == 14
OptimalSpeed == 12
MaxSlack == 180
DefaultDistance == 50

\* The difference taken the other way round, vsp - original.
Savings10Num_Reversed(distance, timeDiff) ==
  70 * timeDiff * timeDiff + 1260 * distance * distance - 594 * distance * timeDiff

\* savings * 10 as the fraction n / d, with requiredSpeed = distance * 60 /
\* timeDiff and getFuelConsumption(s) = 0.05 s^2 - 1.2 s + 10 (positive on
\* [12, 14], so its Math.max(0, .) is the identity there):
\*   original = consumption(14) * distance / 14        = 3 distance / 14
\*   vsp      = consumption(r) * distance / r
\*            = 3 distance^2 / timeDiff - 1.2 distance + timeDiff / 6
\*   (original - vsp) * 10
\*            = (594 d t - 1260 d^2 - 70 t^2) / (42 t)
Savings10Num(distance, timeDiff) ==
  594 * distance * timeDiff - 1260 * distance * distance - 70 * timeDiff * timeDiff
Savings10Den(timeDiff) == 42 * timeDiff

VspDefault ==
  [ vspSavings10 |-> 0, recommendedSpeed10 |-> BaseSpeed * 10,
    virtualArrivalMode |-> FALSE ]

\* A slack window widened to four hours.
SlackInWindow_FourHours(timeDiff) == timeDiff > 0 /\ timeDiff <= 240

\* if (timeDiff > 0 && timeDiff <= 180)
SlackInWindow(timeDiff) == timeDiff > 0 /\ timeDiff <= MaxSlack

\* if (requiredSpeed >= optimalSpeed && requiredSpeed <= baseSpeed), with
\* requiredSpeed = distance * 60 / timeDiff and timeDiff > 0, compared
\* without the division.
SpeedInBand(distance, timeDiff) ==
  /\ distance * 60 >= OptimalSpeed * timeDiff
  /\ distance * 60 <= BaseSpeed * timeDiff

calculateVSP(a) ==
  LET correctedTime == ParseMinutes(a.correctedETA)
      berthTime == ParseMinutes(a.berthAvailableTime)
      timeDiff == berthTime - correctedTime
      d == a.distanceToPort
  IN IF SlackInWindow(timeDiff)
       THEN IF SpeedInBand(d, timeDiff)
              THEN [ vspSavings10 |->
                       Max(0, Round(Savings10Num(d, timeDiff), Savings10Den(timeDiff))),
                     recommendedSpeed10 |-> Round(d * 600, timeDiff),
                     virtualArrivalMode |-> TRUE ]
              ELSE VspDefault
       ELSE VspDefault

VspCorrected == { <<10, 0>>, <<10, 15>>, <<12, 30>> }
VspBerthTimes == { <<h, m>> : h \in 9 .. 13, m \in {0, 1, 9, 15, 20, 30, 45} }
VspDistances == {28, 30, 42, DefaultDistance}

InitVSP ==
  /\ vspArgs \in [ correctedETA : VspCorrected, berthAvailableTime : VspBerthTimes,
                   distanceToPort : VspDistances ]
  /\ vspResult = None

CalculateVSP ==
  /\ pc = "start"
  /\ pc' = "done"
  /\ vspResult' = calculateVSP(vspArgs)
  /\ UNCHANGED <<vspArgs, exceptVSP>>

-----------------------------------------------------------------------------
(* 4. detectChannelConflicts                                               *)

\* ship.gantt of a ship that has none (undefined), and its assignedBerthId.
NoGantt == [absent |-> TRUE]
NoBerth == ""

DefaultTimeSlots == 10
ChannelsDefault == [deep |-> 1, feeder |-> 2]

\* An overlap test that also counts intervals that only touch.
IntervalsOverlap_Touching(start1, end1, start2, end2) ==
  ~(end1 < start2 \/ end2 < start1)

\* if (!(end1 <= start2 || end2 <= start1))
IntervalsOverlap(start1, end1, start2, end2) ==
  ~(end1 <= start2 \/ end2 <= start1)

\* Math.floor((start1 + start2) / 2 / (24 / timeSlots))
TimeSlotOf(start1, start2, timeSlots) ==
  ((start1 + start2) * timeSlots) \div (2 * HoursPerDay)

\* const maxCapacity = channelSlot === 'Deep' ? 1 : 2  (the `channels`
\* argument sizes the matrix only)
MaxCapacity(channelSlot) == IF channelSlot = "Deep" THEN 1 ELSE 2

ChannelIndex(channelSlot) == IF channelSlot = "Deep" THEN 0 ELSE 1

\* ships.filter(s => s.gantt && s.assignedBerthId)
ShipsWithSchedule(ships) ==
  SelectSeq(ships, LAMBDA sh : sh.gantt # NoGantt /\ sh.assignedBerthId # NoBerth)

\* The pairs (i, j), i < j <= n, in the order of the two nested for loops.
RECURSIVE PairsFrom(_, _, _)
PairsFrom(i, j, n) ==
  IF i >= n THEN << >>
  ELSE IF j > n THEN PairsFrom(i + 1, i + 2, n)
  ELSE << <<i, j>> >> \o PairsFrom(i, j + 1, n)
LoopPairs(n) == PairsFrom(1, 2, n)

\* What a call that raised a TypeError leaves: no report.
Threw == [threw |-> TRUE]

\* The body of the two nested loops for the pairs from position k on.
\* conflictMatrix[timeSlot] is undefined for a timeSlot outside the rows, and
\* `conflictMatrix[timeSlot][channelIndex]++` then raises a TypeError.
RECURSIVE DetectLoop(_, _, _, _, _, _)
DetectLoop(sws, pairs, k, timeSlots, conflicts, conflictMatrix) ==
  IF k > Len(pairs)
    THEN [ threw |-> FALSE,
           hasConflict |-> Len(conflicts) > 0,
           conflicts |-> conflicts,
           conflictMatrix |-> conflictMatrix ]
  ELSE
    LET ship1 == sws[pairs[k][1]]
        ship2 == sws[pairs[k][2]]
        start1 == ship1.gantt.startTime
        end1 == start1 + ship1.gantt.duration
        start2 == ship2.gantt.startTime
        end2 == start2 + ship2.gantt.duration
        timeSlot == TimeSlotOf(start1, start2, timeSlots)
        overlap == IntervalsOverlap(start1, end1, start2, end2)
        berthConflicts ==
          IF ship1.assignedBerthId = ship2.assignedBerthId /\ overlap
            THEN << [ ship1 |-> ship1.id, ship2 |-> ship2.id,
                      conflictType |-> "berth_overlap",
                      timeSlot |-> timeSlot,
                      channel |-> ship1.gantt.channelSlot,
                      severity |-> "high" ] >>
            ELSE << >>
        sameChannel == ship1.gantt.channelSlot = ship2.gantt.channelSlot
        channelIndex == ChannelIndex(ship1.gantt.channelSlot)
    IN IF sameChannel /\ overlap
         THEN IF timeSlot \notin 0 .. timeSlots - 1
                THEN Threw
                ELSE
                  LET count == conflictMatrix[timeSlot][channelIndex] + 1
                      matrix2 == [conflictMatrix EXCEPT ![timeSlot][channelIndex] = count]
                      channelConflicts ==
                        IF count > MaxCapacity(ship1.gantt.channelSlot)
                          THEN << [ ship1 |-> ship1.id, ship2 |-> ship2.id,
                                    conflictType |-> "channel_collision",
                                    timeSlot |-> timeSlot,
                                    channel |-> ship1.gantt.channelSlot,
                                    severity |-> IF ship1.gantt.channelSlot = "Deep"
                                                   THEN "high" ELSE "medium" ] >>
                          ELSE << >>
                  IN DetectLoop(sws, pairs, k + 1, timeSlots,
                                conflicts \o berthConflicts \o channelConflicts,
                                matrix2)
         ELSE DetectLoop(sws, pairs, k + 1, timeSlots,
                         conflicts \o berthConflicts, conflictMatrix)

\* A matrix that lives on between calls: the second call starts from the
\* counts the first one left.
ZeroMatrix_Retained(timeSlots, channels) ==
  IF pc = "done" /\ ~conflictInfo.threw
    THEN conflictInfo.conflictMatrix
    ELSE [ t \in 0 .. timeSlots - 1 |->
             [ c \in 0 .. channels.deep + channels.feeder - 1 |-> 0 ] ]

\* Array(timeSlots).fill(0).map(() => Array(channels.deep + channels.feeder).fill(0)),
\* built anew by every call
ZeroMatrix(timeSlots, channels) ==
  [ t \in 0 .. timeSlots - 1 |->
      [ c \in 0 .. channels.deep + channels.feeder - 1 |-> 0 ] ]

detectChannelConflicts(ships, timeSlots, channels) ==
  LET sws == ShipsWithSchedule(ships)
  IN DetectLoop(sws, LoopPairs(Len(sws)), 1, timeSlots, << >>,
                ZeroMatrix(timeSlots, channels))

\* Schedules that are tried: up to MaxSchedule ships, the k-th with id "Sk".
MaxSchedule == 3
ShipIdOf(k) == "S" \o ToString(k)
\* gantt.startTime is on a 0-24 scale (src/types.ts): 24 is its upper end.
GanttWindows == { <<0, 4>>, <<2, 4>>, <<4, 4>>, <<2, 2>>, <<23, 4>>, <<24, 4>> }
Gantts ==
  { [startTime |-> w[1], duration |-> w[2], channelSlot |-> c] :
      w \in GanttWindows, c \in {"Deep", "Feeder"} }
ScheduleEntries ==
  [assignedBerthId : {"A01", "B01"}, gantt : Gantts]
    \cup [assignedBerthId : {"A01"}, gantt : {NoGantt}]
    \cup [assignedBerthId : {NoBerth},
          gantt : {[startTime |-> 0, duration |-> 4, channelSlot |-> "Deep"]}]
ScheduleOf(entries) ==
  [ k \in 1 .. Len(entries) |->
      [ id |-> ShipIdOf(k), assignedBerthId |-> entries[k].assignedBerthId,
        gantt |-> entries[k].gantt ] ]

InitDetect ==
  /\ \E n \in 0 .. MaxSchedule :
       \E entries \in [1 .. n -> ScheduleEntries] :
         detectArgs = [ ships |-> ScheduleOf(entries),
                        timeSlots |-> DefaultTimeSlots,
                        channels |-> ChannelsDefault ]
  /\ conflictInfo = None

DetectChannelConflicts ==
  /\ pc = "start"
  /\ pc' = "done"
  /\ conflictInfo' = detectChannelConflicts(
                       detectArgs.ships, detectArgs.timeSlots, detectArgs.channels)
  /\ UNCHANGED <<detectArgs, exceptDetect>>

\* A second call on the same, unchanged ships.
DetectChannelConflictsAgain ==
  /\ pc = "done"
  /\ pc' = "again"
  /\ conflictInfo' = detectChannelConflicts(
                       detectArgs.ships, detectArgs.timeSlots, detectArgs.channels)
  /\ UNCHANGED <<detectArgs, exceptDetect>>

NextDetect ==
  \/ DetectChannelConflicts
  \/ DetectChannelConflictsAgain

-----------------------------------------------------------------------------
(* 5. checkTideWindow                                                      *)

\* TIDE_DATA of src/constants.ts; heights in tenths of a metre.
TIDE_DATA ==
  << [time |-> <<6, 0>>,  height10 |-> 21],
     [time |-> <<8, 0>>,  height10 |-> 35],
     [time |-> <<10, 0>>, height10 |-> 48],
     [time |-> <<12, 0>>, height10 |-> 42],
     [time |-> <<14, 0>>, height10 |-> 25],
     [time |-> <<16, 0>>, height10 |-> 12],
     [time |-> <<18, 0>>, height10 |-> 8],
     [time |-> <<20, 0>>, height10 |-> 20] >>

\* A lookup that lets a later sample win a tie: diff <= minDiff.
RECURSIVE ClosestTideLoop_LastOnTie(_, _, _, _, _)
ClosestTideLoop_LastOnTie(tideData, hours, k, closest, minDiff) ==
  IF k > Len(tideData) THEN closest
  ELSE LET diff == Abs(tideData[k].time[1] - hours)
       IN IF diff <= minDiff
            THEN ClosestTideLoop_LastOnTie(tideData, hours, k + 1, k, diff)
            ELSE ClosestTideLoop_LastOnTie(tideData, hours, k + 1, closest, minDiff)

\* The for loop over tideData from index k on: `closest` is the index of
\* closestTide, replaced only by a strictly smaller difference.
RECURSIVE ClosestTideLoop(_, _, _, _, _)
ClosestTideLoop(tideData, hours, k, closest, minDiff) ==
  IF k > Len(tideData) THEN closest
  ELSE LET diff == Abs(tideData[k].time[1] - hours)
       IN IF diff < minDiff
            THEN ClosestTideLoop(tideData, hours, k + 1, k, diff)
            ELSE ClosestTideLoop(tideData, hours, k + 1, closest, minDiff)

\* let closestTide = tideData[0]; let minDiff = ...; for (const tide of tideData)
ClosestTide(tideData, hours) ==
  tideData[ClosestTideLoop(tideData, hours, 1, 1,
                           Abs(tideData[1].time[1] - hours))]

UnderKeelClearance10 == 10

\* feasible: availableDepth >= requiredDepth, with requiredDepth = draft + 1.0
\* and availableDepth = berth.depth + closestTide.height.
DepthFeasible(draft10, depth10, height10) ==
  depth10 + height10 >= draft10 + UnderKeelClearance10

checkTideWindow(ship, tideData, berth, targetTime) ==
  LET hours == targetTime[1]
      closestTide == ClosestTide(tideData, hours)
      requiredDepth10 == ship.draft10 + UnderKeelClearance10
      availableDepth10 == berth.depth10 + closestTide.height10
  IN [ feasible |-> DepthFeasible(ship.draft10, berth.depth10, closestTide.height10),
       tideHeight10 |-> closestTide.height10,
       requiredDepth10 |-> requiredDepth10,
       safetyMargin10 |-> availableDepth10 - requiredDepth10 ]

-----------------------------------------------------------------------------
(* 6. generateCandidateBerthSlots                                          *)

\* A time field that is absent (undefined).
NoTime == << >>

MaxDraft10 == 150
MinDuration == 4
MetresPerHour == 50

\* Ship lengths L, multiples of 10 up to 450, for which the double L * 1.1 is
\* above the real 1.1 L (for the others of these it is exact).
Times1_1RoundsUp ==
  {50, 90, 100, 110} \cup {170 + 10 * k : k \in 0 .. 6}
    \cup {330 + 10 * k : k \in 0 .. 12}

\* A length test without the 10% margin.
BerthTooShort_NoMargin(berthLength, shipLength) == berthLength < shipLength

\* if (berth.length < ship.length * 1.1) continue
BerthTooShort(berthLength, shipLength) ==
  \/ 10 * berthLength < 11 * shipLength
  \/ 10 * berthLength = 11 * shipLength /\ shipLength \in Times1_1RoundsUp

\* A draft test that lets every draft pass.
DraftTooDeep_Never(draft10) == FALSE

\* if (ship.draft > 15) continue
DraftTooDeep(draft10) == draft10 > MaxDraft10

\* if (ship.type === TANKER && berth.zone !== 'A') continue
WrongZone(shipType, zone) == shipType = TANKER /\ zone # "A"

\* Math.max(4, Math.ceil(ship.length / 50))
EstimatedDuration(shipLength) ==
  Max(MinDuration, (shipLength + MetresPerHour - 1) \div MetresPerHour)

\* ship.earliestOperationTime || ship.etaCorrected || ship.etaOriginal
EotTimeOf(ship) ==
  IF ship.earliestOperationTime # NoTime THEN ship.earliestOperationTime
  ELSE IF ship.etaCorrected # NoTime THEN ship.etaCorrected
  ELSE ship.etaOriginal

ChannelOf(zone) == IF zone = "A" THEN "Deep" ELSE "Feeder"

\* A test that looks at the occupancy map alone.
TakesOccupiedBranch_MapOnly(berth, occupiedSlots) ==
  berth.id \in DOMAIN occupiedSlots

\* const occupied = occupiedSlots.get(berth.id); if (occupied && berth.isOccupied)
\* occupiedSlots is a function from the berth ids that have an entry to
\* [start, end] in minutes.
TakesOccupiedBranch(berth, occupiedSlots) ==
  berth.id \in DOMAIN occupiedSlots /\ berth.isOccupied

\* The start and end of the slot tried on one berth.
SlotStart(ship, berth, occupiedSlots) ==
  IF TakesOccupiedBranch(berth, occupiedSlots)
    THEN LET availableStart == occupiedSlots[berth.id].end
         IN << Floor(availableStart, MinutesPerHour),
               availableStart % MinutesPerHour >>
    ELSE EotTimeOf(ship)

SlotEnd(ship, berth, occupiedSlots) ==
  LET estimatedDuration == EstimatedDuration(ship.length)
  IN IF TakesOccupiedBranch(berth, occupiedSlots)
       THEN << (Floor(occupiedSlots[berth.id].end, MinutesPerHour)
                  + estimatedDuration) % HoursPerDay, 0 >>
       ELSE << JsRem(EotTimeOf(ship)[1] + estimatedDuration, HoursPerDay), 0 >>

\* The body of `for (const berth of berths)`, from berth k on.
RECURSIVE CandidateLoop(_, _, _, _, _)
CandidateLoop(ship, berths, tideData, occupiedSlots, k) ==
  IF k > Len(berths) THEN << >>
  ELSE
    LET berth == berths[k]
        rest == CandidateLoop(ship, berths, tideData, occupiedSlots, k + 1)
        startTime == SlotStart(ship, berth, occupiedSlots)
        tideCheck == checkTideWindow(ship, tideData, berth, startTime)
    IN IF BerthTooShort(berth.length, ship.length) THEN rest
       ELSE IF DraftTooDeep(ship.draft10) THEN rest
       ELSE IF WrongZone(ship.type, berth.zone) THEN rest
       ELSE IF tideCheck.feasible
         THEN << [ berthId |-> berth.id,
                   startTime |-> startTime,
                   endTime |-> SlotEnd(ship, berth, occupiedSlots),
                   tideWindow |-> [feasible |-> TRUE,
                                   height10 |-> tideCheck.tideHeight10],
                   channelSlot |-> ChannelOf(berth.zone) ] >> \o rest
         ELSE rest

generateCandidateBerthSlots(ship, berths, tideData, occupiedSlots) ==
  CandidateLoop(ship, berths, tideData, occupiedSlots, 1)

\* Three berths of PORT_BERTHS (src/constants.ts), one per zone; depth in
\* tenths of a metre.
BerthIds == {"A01", "B01", "C01"}
PortBerths(occ) ==
  << [id |-> "A01", zone |-> "A", length |-> 450, depth10 |-> 180,
      isOccupied |-> occ["A01"]],
     [id |-> "B01", zone |-> "B", length |-> 300, depth10 |-> 140,
      isOccupied |-> occ["B01"]],
     [id |-> "C01", zone |-> "C", length |-> 150, depth10 |-> 100,
      isOccupied |-> occ["C01"]] >>

SlotShipLengths == {120, 137, 280, 399}
SlotShipDrafts10 == {70, 125, 150, 155}
SlotEotTimes == { <<7, 0>>, <<10, 59>>, <<17, 30>> }
\* A time field that is not a time of day: "-1:-55", which calculateEOT
\* returns for the corrected ETA "-1:-25" of a small container ship.
MalformedTimes == { <<-1, -55>> }
\* Ends of occupancy in minutes: (gantt.startTime + gantt.duration) * 60.
OccupiedEnds == {870, 1560}
OccupiedSlotMaps ==
  UNION { [S -> [start : {0}, end : OccupiedEnds]] : S \in SUBSET BerthIds }

SlotShips ==
  [ type : ShipTypes, length : SlotShipLengths, draft10 : SlotShipDrafts10,
    earliestOperationTime : SlotEotTimes, etaCorrected : {NoTime},
    etaOriginal : { <<10, 0>> } ]
    \cup
  [ type : {CONTAINER}, length : {120}, draft10 : {70},
    earliestOperationTime : {NoTime}, etaCorrected : {NoTime, <<9, 20>>},
    etaOriginal : { <<10, 0>> } ]
    \cup
  [ type : {CONTAINER, TANKER}, length : {120, 280}, draft10 : {70, 155},
    earliestOperationTime : MalformedTimes, etaCorrected : {NoTime},
    etaOriginal : { <<10, 0>> } ]

InitSlots ==
  /\ slotArgs \in
       [ ship : SlotShips,
         isOccupied : [BerthIds -> BOOLEAN],
         occupiedSlots : OccupiedSlotMaps ]
  /\ candidates = None

GenerateCandidateBerthSlots ==
  /\ pc = "start"
  /\ pc' = "done"
  /\ candidates' = generateCandidateBerthSlots(
                     slotArgs.ship, PortBerths(slotArgs.isOccupied), TIDE_DATA,
                     slotArgs.occupiedSlots)
  /\ UNCHANGED <<slotArgs, exceptSlots>>

-----------------------------------------------------------------------------
(* 7. Variable neighbourhood search                                       *)

\* A ScheduleSolution is [assignments, startTimes, objectiveValue10,
\* efficiency, cost]: assignments and startTimes are functions from the ship
\* ids that have an entry (a Map); objectiveValue is kept in tenths.  Start
\* times are whole hours.
NullSolution == [null |-> TRUE]

\* solution.startTimes.get(ship.id) || 0
StartTimeOf(startTimes, id) ==
  IF id \in DOMAIN startTimes THEN startTimes[id] ELSE 0

\* map.set(key, value) on a copy of the map
MapSet(map, key, value) ==
  [ k \in DOMAIN map \cup {key} |-> IF k = key THEN value ELSE map[k] ]

\* ships.forEach(ship => { efficiency += ship.priority * (24 - startTime) })
RECURSIVE EfficiencyFrom(_, _, _)
EfficiencyFrom(startTimes, ships, k) ==
  IF k > Len(ships) THEN 0
  ELSE ships[k].priority * (HoursPerDay - StartTimeOf(startTimes, ships[k].id))
         + EfficiencyFrom(startTimes, ships, k + 1)

\* ships.forEach(ship => { cost += startTime })
RECURSIVE CostFrom(_, _, _)
CostFrom(startTimes, ships, k) ==
  IF k > Len(ships) THEN 0
  ELSE StartTimeOf(startTimes, ships[k].id) + CostFrom(startTimes, ships, k + 1)

\* evaluateSolution writes the three fields of the object it is given and
\* returns objectiveValue = efficiency - cost * 0.1 (here times ten).
evaluateSolution(solution, ships) ==
  LET efficiency == EfficiencyFrom(solution.startTimes, ships, 1)
      cost == CostFrom(solution.startTimes, ships, 1)
  IN [ solution EXCEPT !.efficiency = efficiency,
                       !.cost = cost,
                       !.objectiveValue10 = 10 * efficiency - cost ]

\* berths.find(b => b.id === id); the result is used only when it exists.
HasBerth(berths, id) == \E k \in 1 .. Len(berths) : berths[k].id = id
FindBerth(berths, id) ==
  berths[CHOOSE k \in 1 .. Len(berths) :
           berths[k].id = id /\ \A n \in 1 .. k - 1 : berths[n].id # id]

swapOperator(solution, ship1, ship2, berths) ==
  IF ship1.id \notin DOMAIN solution.assignments
       \/ ship2.id \notin DOMAIN solution.assignments
    THEN NullSolution
  ELSE
    LET berth1 == solution.assignments[ship1.id]
        berth2 == solution.assignments[ship2.id]
    IN IF berth1 = NoBerth \/ berth2 = NoBerth THEN NullSolution
       ELSE IF ~HasBerth(berths, berth1) \/ ~HasBerth(berths, berth2)
         THEN NullSolution
       ELSE IF \/ BerthTooShort(FindBerth(berths, berth1).length, ship2.length)
               \/ BerthTooShort(FindBerth(berths, berth2).length, ship1.length)
         THEN NullSolution
       ELSE IF DraftTooDeep(ship1.draft10) \/ DraftTooDeep(ship2.draft10)
         THEN NullSolution
       ELSE [ assignments |->
                MapSet(MapSet(solution.assignments, ship1.id, berth2),
                       ship2.id, berth1),
              startTimes |-> solution.startTimes,
              objectiveValue10 |-> 0, efficiency |-> 0, cost |-> 0 ]

AssumedDuration == 4

\* detectTimeConflicts: the pairs i < j of `ships` on one berth whose
\* 4-hour intervals overlap.
detectTimeConflicts(assignments, startTimes, ships, berths) ==
  LET pairs == LoopPairs(Len(ships))
      conflicting(pr) ==
        LET ship1 == ships[pr[1]]
            ship2 == ships[pr[2]]
        IN /\ ship1.id \in DOMAIN assignments
           /\ ship2.id \in DOMAIN assignments
           /\ assignments[ship1.id] # NoBerth
           /\ assignments[ship1.id] = assignments[ship2.id]
           /\ IntervalsOverlap(
                StartTimeOf(startTimes, ship1.id),
                StartTimeOf(startTimes, ship1.id) + AssumedDuration,
                StartTimeOf(startTimes, ship2.id),
                StartTimeOf(startTimes, ship2.id) + AssumedDuration)
  IN SelectSeq(pairs, conflicting)

\* insertOperator hands detectTimeConflicts the list [ship], the moved ship
\* alone.
insertOperator(solution, ship, newStartTime, berths) ==
  LET newStartTimes == MapSet(solution.startTimes, ship.id, newStartTime)
      conflicts == detectTimeConflicts(solution.assignments, newStartTimes,
                                       <<ship>>, berths)
  IN IF Len(conflicts) > 0 THEN NullSolution
     ELSE [ assignments |-> solution.assignments,
            startTimes |-> newStartTimes,
            objectiveValue10 |-> 0, efficiency |-> 0, cost |-> 0 ]

\* A comparison that accepts every neighbour.
Improves_Always(newValue, oldValue) == TRUE

\* The comparison of a search that minimises.
Improves_Minimising(newValue, oldValue) == newValue <= oldValue

\* evaluateSolution(a, ships) > evaluateSolution(b, ships)
Improves(newValue, oldValue) == newValue > oldValue

\* The objects of a run: the caller's object, currentSolution (the same
\* object as the caller's while `isInitial`) and bestSolution.
\* One pass of the body of the swap loops, for the pair (ships[i], ships[j]).
SwapStep(st, ships, berths, i, j) ==
  LET newSolution == swapOperator(st.current, ships[i], ships[j], berths)
  IN IF newSolution = NullSolution THEN st
     ELSE
       LET newEvaluated == evaluateSolution(newSolution, ships)
           curEvaluated == evaluateSolution(st.current, ships)
           initial1 == IF st.isInitial THEN curEvaluated ELSE st.initial
       IN IF Improves(newEvaluated.objectiveValue10, curEvaluated.objectiveValue10)
            THEN LET bestEvaluated == evaluateSolution(st.best, ships)
                 IN [ current |-> newEvaluated,
                      isInitial |-> FALSE,
                      initial |-> initial1,
                      best |-> IF Improves(newEvaluated.objectiveValue10,
                                           bestEvaluated.objectiveValue10)
                                 THEN newEvaluated
                                 ELSE bestEvaluated ]
            ELSE [st EXCEPT !.current = curEvaluated, !.initial = initial1]

RECURSIVE SwapLoop(_, _, _, _, _)
SwapLoop(st, ships, berths, pairs, k) ==
  IF k > Len(pairs) THEN st
  ELSE SwapLoop(SwapStep(st, ships, berths, pairs[k][1], pairs[k][2]),
                ships, berths, pairs, k + 1)

\* PORT_BERTHS of src/constants.ts with the berths of `occupied` occupied;
\* depth in tenths of a metre.
PORT_BERTHS(occupied) ==
  << [id |-> "A01", zone |-> "A", length |-> 450, depth10 |-> 180,
      isOccupied |-> "A01" \in occupied],
     [id |-> "A02", zone |-> "A", length |-> 450, depth10 |-> 180,
      isOccupied |-> "A02" \in occupied],
     [id |-> "B01", zone |-> "B", length |-> 300, depth10 |-> 140,
      isOccupied |-> "B01" \in occupied],
     [id |-> "B02", zone |-> "B", length |-> 300, depth10 |-> 140,
      isOccupied |-> "B02" \in occupied],
     [id |-> "C01", zone |-> "C", length |-> 150, depth10 |-> 100,
      isOccupied |-> "C01" \in occupied],
     [id |-> "C02", zone |-> "C", length |-> 150, depth10 |-> 100,
      isOccupied |-> "C02" \in occupied] >>

\* Berths and ships of the runs that are tried.  The operators of the
\* search read the id and the length of a berth only.
VnsBerths == PORT_BERTHS({})
VnsShipPool ==
  << [id |-> "S002", length |-> 200, draft10 |-> 105, priority |-> 7],
     [id |-> "S005", length |-> 120, draft10 |-> 70,  priority |-> 4],
     [id |-> "S001", length |-> 399, draft10 |-> 165, priority |-> 10],
     [id |-> "S003", length |-> 280, draft10 |-> 145, priority |-> 5] >>
MaxVnsShips == 3
MaxIterations == 2
\* Math.random() * 20 lies in [0, 20); the whole hours 0 .. MaxInsertTime of
\* it are drawn.
MaxInsertTime == 3
InsertTimeLimit == 20
InsertTimes == { t \in 0 .. MaxInsertTime : t < InsertTimeLimit }
\* An entry of the initial solution for one ship: none, or a berth and a
\* start time.
InitialEntries == { <<NoBerth, 0>>, <<"A01", 0>>, <<"A01", 6>>, <<"C01", 6>> }
InitialFields ==
  { [objectiveValue10 |-> 0, efficiency |-> 0, cost |-> 0],
    [objectiveValue10 |-> 9999, efficiency |-> 999, cost |-> 1] }

SolutionOf(ships, entries, fields) ==
  LET assigned == { k \in 1 .. Len(ships) : entries[k][1] # NoBerth }
      idx(id) == CHOOSE k \in assigned : ships[k].id = id
      ids == { ships[k].id : k \in assigned }
  IN [ assignments |-> [ id \in ids |-> entries[idx(id)][1] ],
       startTimes |-> [ id \in ids |-> entries[idx(id)][2] ],
       objectiveValue10 |-> fields.objectiveValue10,
       efficiency |-> fields.efficiency,
       cost |-> fields.cost ]

\* let currentSolution = initialSolution; let bestSolution = { ...currentSolution }
InitVNS ==
  /\ \E n \in 0 .. MaxVnsShips, maxIterations \in 0 .. MaxIterations,
        fields \in InitialFields :
       \E entries \in [1 .. n -> InitialEntries] :
         LET ships == SubSeq(VnsShipPool, 1, n)
             initial == SolutionOf(ships, entries, fields)
         IN /\ vnsArgs = [ initialSolution |-> initial, ships |-> ships,
                           maxIterations |-> maxIterations ]
            /\ initialSolution = initial
            /\ currentSolution = initial
            /\ bestSolution = initial
  /\ currentIsInitial = TRUE
  /\ iter = 0
  /\ vnsResult = None

\* for (let i ...) for (let j = i + 1 ...) { swapOperator ... }
VNSSwapNeighborhood ==
  /\ pc = "swap"
  /\ iter < vnsArgs.maxIterations
  /\ LET st == SwapLoop([ current |-> currentSolution,
                          isInitial |-> currentIsInitial,
                          initial |-> initialSolution,
                          best |-> bestSolution ],
                        vnsArgs.ships, VnsBerths,
                        LoopPairs(Len(vnsArgs.ships)), 1)
     IN /\ currentSolution' = st.current
        /\ currentIsInitial' = st.isInitial
        /\ initialSolution' = st.initial
        /\ bestSolution' = st.best
  /\ pc' = "insert"
  /\ UNCHANGED <<vnsArgs, iter, vnsResult, exceptVNS>>

\* if (Math.random() < 0.3) is false
VNSInsertSkipped ==
  /\ pc = "insert"
  /\ pc' = "swap"
  /\ iter' = iter + 1
  /\ UNCHANGED <<vnsArgs, initialSolution, currentSolution, currentIsInitial,
                 bestSolution, vnsResult, exceptVNS>>

\* if (Math.random() < 0.3) { randomShip, newStartTime, insertOperator ... }
VNSInsert ==
  /\ pc = "insert"
  /\ Len(vnsArgs.ships) > 0
  /\ \E r \in 1 .. Len(vnsArgs.ships), newStartTime \in InsertTimes :
       LET ships == vnsArgs.ships
           newSolution == insertOperator(currentSolution, ships[r],
                                         newStartTime, VnsBerths)
       IN IF newSolution = NullSolution
            THEN UNCHANGED <<initialSolution, currentSolution, currentIsInitial>>
            ELSE
              LET newEvaluated == evaluateSolution(newSolution, ships)
                  curEvaluated == evaluateSolution(currentSolution, ships)
              IN /\ initialSolution' =
                      IF currentIsInitial THEN curEvaluated ELSE initialSolution
                 /\ IF Improves(newEvaluated.objectiveValue10,
                                curEvaluated.objectiveValue10)
                      THEN /\ currentSolution' = newEvaluated
                           /\ currentIsInitial' = FALSE
                      ELSE /\ currentSolution' = curEvaluated
                           /\ UNCHANGED currentIsInitial
  /\ pc' = "swap"
  /\ iter' = iter + 1
  /\ UNCHANGED <<vnsArgs, bestSolution, vnsResult, exceptVNS>>

\* With an empty ship list ships[Math.floor(Math.random() * 0)] is undefined
\* and insertOperator's `ship.id` raises a TypeError.
VNSInsertThrows ==
  /\ pc = "insert"
  /\ Len(vnsArgs.ships) = 0
  /\ pc' = "error"
  /\ UNCHANGED <<vnsVars, exceptVNS>>

\* return bestSolution
VNSReturn ==
  /\ pc = "swap"
  /\ iter >= vnsArgs.maxIterations
  /\ vnsResult' = bestSolution
  /\ pc' = "done"
  /\ UNCHANGED <<vnsArgs, initialSolution, currentSolution, currentIsInitial,
                 bestSolution, iter, exceptVNS>>

NextVNS ==
  \/ VNSSwapNeighborhood
  \/ VNSInsertSkipped
  \/ VNSInsert
  \/ VNSInsertThrows
  \/ VNSReturn

-----------------------------------------------------------------------------
(* 7b. reverseOperator                                                     *)

\* ships.filter(s => { const st = newStartTimes.get(s.id) || 0;
\*                     return st >= startTime && st <= endTime })
AffectedShips(startTimes, ships, startTime, endTime) ==
  SelectSeq(ships, LAMBDA sh :
    /\ StartTimeOf(startTimes, sh.id) >= startTime
    /\ StartTimeOf(startTimes, sh.id) <= endTime)

\* .sort((a, b) => a - b)
RECURSIVE SortAscending(_)
SortAscending(times) ==
  IF Len(times) = 0 THEN << >>
  ELSE LET k == CHOOSE i \in 1 .. Len(times) :
                  \A j \in 1 .. Len(times) : times[i] <= times[j]
           rest == [ i \in 1 .. Len(times) - 1 |->
                       IF i < k THEN times[i] ELSE times[i + 1] ]
       IN <<times[k]>> \o SortAscending(rest)

\* [...times].reverse()
Reverse(seq) == [ i \in 1 .. Len(seq) |-> seq[Len(seq) + 1 - i] ]

\* affectedShips.forEach((ship, index) => newStartTimes.set(ship.id, reversedTimes[index]))
RECURSIVE SetReversedTimes(_, _, _, _)
SetReversedTimes(startTimes, affectedShips, reversedTimes, k) ==
  IF k > Len(affectedShips) THEN startTimes
  ELSE SetReversedTimes(MapSet(startTimes, affectedShips[k].id, reversedTimes[k]),
                        affectedShips, reversedTimes, k + 1)

reverseOperator(solution, startTime, endTime, ships) ==
  LET affectedShips == AffectedShips(solution.startTimes, ships, startTime, endTime)
      times == SortAscending([ k \in 1 .. Len(affectedShips) |->
                                 StartTimeOf(solution.startTimes, affectedShips[k].id) ])
      reversedTimes == Reverse(times)
  IN IF Len(affectedShips) < 2 THEN NullSolution
     ELSE [ assignments |-> solution.assignments,
            startTimes |-> SetReversedTimes(solution.startTimes, affectedShips,
                                            reversedTimes, 1),
            objectiveValue10 |-> 0, efficiency |-> 0, cost |-> 0 ]

\* Calls that are tried: the first ships of the pool, each without a start
\* time or with one of ReverseStarts, and a window.
MaxReverseShips == 3
ReverseStarts == {1, 3, 5}
ReverseWindows == { <<0, 5>>, <<1, 3>>, <<2, 6>>, <<4, 4>> }

InitReverse ==
  /\ \E n \in 0 .. MaxReverseShips, w \in ReverseWindows :
       \E withTime \in SUBSET (1 .. n) :
         \E starts \in [withTime -> ReverseStarts] :
           LET ships == SubSeq(VnsShipPool, 1, n)
           IN reverseArgs =
                [ solution |->
                    [ assignments |-> [ id \in { ships[k].id : k \in 1 .. n } |-> "A01" ],
                      startTimes |-> [ id \in { ships[k].id : k \in withTime } |->
                                         starts[CHOOSE k \in withTime : ships[k].id = id] ],
                      objectiveValue10 |-> 0, efficiency |-> 0, cost |-> 0 ],
                  startTime |-> w[1], endTime |-> w[2], ships |-> ships ]
  /\ reverseResult = None

ReverseOperator ==
  /\ pc = "start"
  /\ pc' = "done"
  /\ reverseResult' = reverseOperator(reverseArgs.solution, reverseArgs.startTime,
                                      reverseArgs.endTime, reverseArgs.ships)
  /\ UNCHANGED <<reverseArgs, exceptReverse>>

-----------------------------------------------------------------------------
(* 7c. The matching and optimization steps of App.tsx                      *)

\* getRecommendedZone(ship): the zone and the berth ids in preference order.
getRecommendedZone(ship) ==
  IF ship.type = TANKER THEN [zone |-> "A", berths |-> <<"A01", "A02">>]
  ELSE IF ship.length > 300 THEN [zone |-> "A", berths |-> <<"A01", "A02">>]
  ELSE IF ship.type = BULK
    THEN [zone |-> "B", berths |-> <<"B01", "B02", "A01", "A02">>]
  ELSE IF ship.length > 150
    THEN [zone |-> "B", berths |-> <<"B01", "B02", "A01", "A02">>]
  ELSE [zone |-> "C", berths |-> <<"C01", "C02">>]

\* A choice that takes the first berth of the list, free or not.
FirstFree_First(ids, assigned) == ids[1]

\* ids.find(p => !assigned.has(p)); NoBerth when there is none (undefined).
FirstFree(ids, assigned) ==
  IF \A k \in 1 .. Len(ids) : ids[k] \in assigned THEN NoBerth
  ELSE ids[CHOOSE k \in 1 .. Len(ids) :
             ids[k] \notin assigned /\ \A n \in 1 .. k - 1 : ids[n] \in assigned]

\* The occupying ship of an occupied berth has gantt {startTime: 10,
\* duration: 4}: start = 10 * 60, end = (10 + 4) * 60 minutes.
OccupiedSlotsOf(occupied) == [ b \in occupied |-> [start |-> 600, end |-> 840] ]

\* berths.filter(b => rec.berths.includes(b.id))
RecommendedBerths(ship, berths) ==
  SelectSeq(berths, LAMBDA b :
    \E k \in 1 .. Len(getRecommendedZone(ship).berths) :
      getRecommendedZone(ship).berths[k] = b.id)

\* candidateBerths: candidateSlots.map(slot => slot.berthId)
CandidateBerthsOf(ship, occupied) ==
  LET candidateSlots ==
        generateCandidateBerthSlots(
          ship, RecommendedBerths(ship, PORT_BERTHS(occupied)), TIDE_DATA,
          OccupiedSlotsOf(occupied))
  IN [ k \in 1 .. Len(candidateSlots) |-> candidateSlots[k].berthId ]

\* [...prev].filter(s => processingShipIds.includes(s.id))
BatchOf(ships, processingShipIds) ==
  SelectSeq(ships, LAMBDA sh : sh.id \in processingShipIds)

\* batch.sort((a, b) => b.priority - a.priority); the sort is stable.
RECURSIVE SortByPriority(_)
SortByPriority(batch) ==
  IF Len(batch) = 0 THEN << >>
  ELSE LET k == CHOOSE i \in 1 .. Len(batch) :
                  /\ \A j \in 1 .. Len(batch) : batch[j].priority <= batch[i].priority
                  /\ \A j \in 1 .. i - 1 : batch[j].priority < batch[i].priority
           rest == [ i \in 1 .. Len(batch) - 1 |->
                       IF i < k THEN batch[i] ELSE batch[i + 1] ]
       IN <<batch[k]>> \o SortByPriority(rest)

\* batch.forEach(s => { ... }) of the greedy initial solution, from ship k
\* on; acc is [assigned, assignments, startTimes].
RECURSIVE GreedyLoop(_, _, _)
GreedyLoop(batch, k, acc) ==
  IF k > Len(batch) THEN acc
  ELSE
    LET sh == batch[k]
        rec == getRecommendedZone(sh)
        first == FirstFree(rec.berths, acc.assigned)
        finalBerth == IF first = NoBerth /\ rec.zone = "B"
                        THEN FirstFree(<<"A01", "A02">>, acc.assigned)
                        ELSE first
    IN IF finalBerth = NoBerth THEN GreedyLoop(batch, k + 1, acc)
       ELSE GreedyLoop(batch, k + 1,
              [ assigned |-> acc.assigned \cup {finalBerth},
                assignments |-> MapSet(acc.assignments, sh.id, finalBerth),
                startTimes |-> MapSet(acc.startTimes, sh.id, EotTimeOf(sh)[1]) ])

\* const initialSolution = { assignments, startTimes, objectiveValue: 0,
\*                           efficiency: 0, cost: 0 }
GreedyInitialSolutionOf(batch, occupied) ==
  LET acc == GreedyLoop(batch, 1, [ assigned |-> occupied,
                                    assignments |-> << >>,
                                    startTimes |-> << >> ])
  IN [ assignments |-> acc.assignments, startTimes |-> acc.startTimes,
       objectiveValue10 |-> 0, efficiency |-> 0, cost |-> 0 ]

\* optimizedSolution.startTimes.get(s.id) || 10
DefaultGanttStart == 10
GanttStartOf(startTimes, id) ==
  IF id \in DOMAIN startTimes /\ startTimes[id] # 0
    THEN startTimes[id] ELSE DefaultGanttStart

\* The ship of finalShips for one ship of prev.
AppliedShip(sh, batchIds, optimizedSolution, berths) ==
  IF sh.id \notin batchIds THEN sh
  ELSE IF sh.id \in DOMAIN optimizedSolution.assignments
    THEN LET berthId == optimizedSolution.assignments[sh.id]
             zone == IF HasBerth(berths, berthId)
                       THEN FindBerth(berths, berthId).zone ELSE ""
         IN [ sh EXCEPT !.assignedBerthId = berthId,
                        !.isDelayed = FALSE,
                        !.gantt = [ startTime |->
                                      GanttStartOf(optimizedSolution.startTimes, sh.id),
                                    duration |-> AssumedDuration,
                                    channelSlot |-> ChannelOf(zone) ] ]
    ELSE [ sh EXCEPT !.assignedBerthId = NoBerth,
                     !.isDelayed = TRUE,
                     !.gantt = NoGantt ]

\* Four of INITIAL_SHIPS (src/constants.ts), in their order; a ship has no
\* candidateBerths, berth or gantt before its first round.
INITIAL_SHIPS ==
  << [id |-> "S001", type |-> CONTAINER, length |-> 399, draft10 |-> 165,
      priority |-> 10, etaOriginal |-> <<10, 0>>],
     [id |-> "S002", type |-> CONTAINER, length |-> 200, draft10 |-> 105,
      priority |-> 7, etaOriginal |-> <<10, 15>>],
     [id |-> "S004", type |-> TANKER, length |-> 330, draft10 |-> 182,
      priority |-> 9, etaOriginal |-> <<11, 0>>],
     [id |-> "S005", type |-> CONTAINER, length |-> 120, draft10 |-> 70,
      priority |-> 4, etaOriginal |-> <<10, 45>>] >>

\* Rounds that are tried: up to MaxBatch selected ships, whose EOT the
\* perception step left, and a set of occupied berths.  The code runs the
\* search for 50 iterations; the runs here are cut to OptIterations.
MaxBatch == 2
OptIterations == 1
OptEotTimes == { <<11, 5>>, <<16, 40>> }
OccupiedSets ==
  { {}, {"A01"}, {"A01", "A02"}, {"B01", "B02"}, {"C01", "C02"} }

ShipWithEot(sh, eot, selected) ==
  [ id |-> sh.id, type |-> sh.type, length |-> sh.length,
    draft10 |-> sh.draft10, priority |-> sh.priority,
    etaOriginal |-> sh.etaOriginal, etaCorrected |-> NoTime,
    earliestOperationTime |-> IF selected THEN eot ELSE NoTime,
    status |-> "waiting",
    candidateBerths |-> << >>, assignedBerthId |-> NoBerth,
    isDelayed |-> FALSE, gantt |-> NoGantt ]

InitOpt ==
  /\ \E processingShipIds \in SUBSET { INITIAL_SHIPS[k].id : k \in 1 .. Len(INITIAL_SHIPS) },
        occupied \in OccupiedSets :
       /\ Cardinality(processingShipIds) \in 1 .. MaxBatch
       /\ \E eots \in [processingShipIds -> OptEotTimes] :
            LET ships == [ k \in 1 .. Len(INITIAL_SHIPS) |->
                             LET sh == INITIAL_SHIPS[k]
                                 selected == sh.id \in processingShipIds
                             IN ShipWithEot(sh, IF selected THEN eots[sh.id] ELSE NoTime,
                                            selected) ]
            IN /\ optArgs = [ ships |-> ships,
                              processingShipIds |-> processingShipIds,
                              occupied |-> occupied ]
               /\ optShips = ships

\* stepIndex === 1: every selected ship gets its candidateBerths.
MatchingStep ==
  /\ pc = "matching"
  /\ pc' = "optimization"
  /\ optShips' =
       [ k \in 1 .. Len(optShips) |->
           IF optShips[k].id \in optArgs.processingShipIds
             THEN [ optShips[k] EXCEPT
                      !.candidateBerths = CandidateBerthsOf(optShips[k], optArgs.occupied) ]
             ELSE optShips[k] ]
  /\ UNCHANGED <<optArgs, vnsVars, exceptOpt>>

\* stepIndex === 2, up to the call of variableNeighborhoodSearch.  The
\* selected ships have no gantt yet, so detectChannelConflicts is handed the
\* empty list.
GreedyInitialSolution ==
  /\ pc = "optimization"
  /\ pc' = "swap"
  /\ LET batch == SortByPriority(BatchOf(optShips, optArgs.processingShipIds))
         initial == GreedyInitialSolutionOf(batch, optArgs.occupied)
     IN /\ vnsArgs' = [ initialSolution |-> initial, ships |-> batch,
                        maxIterations |-> OptIterations ]
        /\ initialSolution' = initial
        /\ currentSolution' = initial
        /\ bestSolution' = initial
  /\ currentIsInitial' = TRUE
  /\ iter' = 0
  /\ UNCHANGED <<vnsResult, optVars, exceptOpt>>

\* stepIndex === 2, after the search has returned: finalShips.
ApplyOptimizedSolution ==
  /\ pc = "done"
  /\ pc' = "applied"
  /\ optShips' =
       [ k \in 1 .. Len(optShips) |->
           AppliedShip(optShips[k], optArgs.processingShipIds, vnsResult,
                       PORT_BERTHS(optArgs.occupied)) ]
  /\ UNCHANGED <<optArgs, vnsVars, exceptOpt>>

NextOpt ==
  \/ MatchingStep
  \/ GreedyInitialSolution
  \/ VNSSwapNeighborhood
  \/ VNSInsertSkipped
  \/ VNSInsert
  \/ VNSReturn
  \/ ApplyOptimizedSolution

-----------------------------------------------------------------------------
(* 8. calculateParetoFront                                                 *)

CarbonPerTon == 3

\* ships.forEach(ship => { totalEmission += (ship.vspSavings || 0) * 3 }),
\* in tenths; the solution is not read.  ship.vspSavings is << >> when it is
\* undefined and <<v>> when it is the number v.
RECURSIVE CarbonFrom(_, _)
CarbonFrom(ships, k) ==
  IF k > Len(ships) THEN 0
  ELSE (IF ships[k].vspSavings10 = << >> THEN 0 ELSE ships[k].vspSavings10[1])
         * CarbonPerTon
       + CarbonFrom(ships, k + 1)
calculateCarbonEmission(solution, ships) == CarbonFrom(ships, 1)

\* The same test without its strictness clause.
Dominates_NotStrict(pj, pi) ==
  /\ pj.efficiency >= pi.efficiency
  /\ pj.cost <= pi.cost
  /\ pj.carbonEmission10 <= pi.carbonEmission10

\* The test `j dominates i` of the inner loop.
Dominates(pj, pi) ==
  /\ pj.efficiency >= pi.efficiency
  /\ pj.cost <= pi.cost
  /\ pj.carbonEmission10 <= pi.carbonEmission10
  /\ \/ pj.efficiency > pi.efficiency
     \/ pj.cost < pi.cost
     \/ pj.carbonEmission10 < pi.carbonEmission10

\* for (let j = 0; ...) { if (i === j) continue; if (...) { isDominated = true; break } }
RECURSIVE IsDominatedFrom(_, _, _)
IsDominatedFrom(paretoSolutions, i, j) ==
  IF j > Len(paretoSolutions) THEN FALSE
  ELSE IF i = j THEN IsDominatedFrom(paretoSolutions, i, j + 1)
  ELSE IF Dominates(paretoSolutions[j], paretoSolutions[i]) THEN TRUE
  ELSE IsDominatedFrom(paretoSolutions, i, j + 1)

\* `solution` is the position of the input solution the entry refers to.
calculateParetoFront(solutions, ships) ==
  LET paretoSolutions ==
        [ i \in 1 .. Len(solutions) |->
            [ solution |-> i,
              efficiency |-> solutions[i].efficiency,
              cost |-> solutions[i].cost,
              carbonEmission10 |-> calculateCarbonEmission(solutions[i], ships) ] ]
      marked ==
        [ i \in 1 .. Len(solutions) |->
            [ solution |-> paretoSolutions[i].solution,
              efficiency |-> paretoSolutions[i].efficiency,
              cost |-> paretoSolutions[i].cost,
              carbonEmission10 |-> paretoSolutions[i].carbonEmission10,
              isParetoOptimal |-> ~IsDominatedFrom(paretoSolutions, i, 1) ] ]
  IN SelectSeq(marked, LAMBDA ps : ps.isParetoOptimal)

MaxSolutions == 3
ParetoEfficiencies == {100, 200, 300}
ParetoCosts == {5, 10}
ParetoShipLists ==
  { << >>,
    << [id |-> "S002", vspSavings10 |-> <<12>>],
       [id |-> "S005", vspSavings10 |-> << >>] >> }

InitPareto ==
  /\ \E n \in 0 .. MaxSolutions :
       \E solutions \in [1 .. n -> [efficiency : ParetoEfficiencies,
                                    cost : ParetoCosts]] :
         \E ships \in ParetoShipLists :
           paretoArgs = [solutions |-> solutions, ships |-> ships]
  /\ paretoFront = None

CalculateParetoFront ==
  /\ pc = "start"
  /\ pc' = "done"
  /\ paretoFront' = calculateParetoFront(paretoArgs.solutions, paretoArgs.ships)
  /\ UNCHANGED <<paretoArgs, exceptPareto>>

-----------------------------------------------------------------------------
(* 7d. App.tsx: the execution step, its timers, Reset and a new start      *)

\* ships.filter(s => processingShipIds.includes(s.id) && s.assignedBerthId
\*                   && s.gantt && !s.isDelayed)
AssignedShipsOf(ships, ids) ==
  SelectSeq(ships, LAMBDA s : /\ s.id \in ids
                              /\ s.assignedBerthId # NoBerth
                              /\ s.gantt # NoGantt
                              /\ ~s.isDelayed)

\* .sort((a, b) => (a.gantt?.startTime || 0) - (b.gantt?.startTime || 0));
\* the sort is stable.
RECURSIVE SortByStartTime(_)
SortByStartTime(assigned) ==
  IF Len(assigned) = 0 THEN << >>
  ELSE LET k == CHOOSE i \in 1 .. Len(assigned) :
                  /\ \A j \in 1 .. Len(assigned) :
                       assigned[i].gantt.startTime <= assigned[j].gantt.startTime
                  /\ \A j \in 1 .. i - 1 :
                       assigned[i].gantt.startTime < assigned[j].gantt.startTime
           rest == [ i \in 1 .. Len(assigned) - 1 |->
                       IF i < k THEN assigned[i] ELSE assigned[i + 1] ]
       IN <<assigned[k]>> \o SortByStartTime(rest)

\* The delays between the callbacks of one ship, in milliseconds.
NavigatingDelay == 2500
DockingDelay == 2500
BufferDelay == 500

\* A callback that waits: what it does, the ship of its closure (id and
\* assignedBerthId as they were when the step ran) and its delay.
Timer(kind, shipId, berthId, delay) ==
  [ kind |-> kind, shipId |-> shipId, berthId |-> berthId, delay |-> delay ]

\* assignedShips.forEach((ship, index) => { three setTimeout calls }), from
\* ship k on, followed by the setTimeout that ends the run.  The delays grow
\* strictly, so the callbacks run in the order of the list.
RECURSIVE ScheduledTimers(_, _, _)
ScheduledTimers(assigned, k, cumulativeDelay) ==
  IF k > Len(assigned)
    THEN << Timer("end", "", NoBerth, cumulativeDelay) >>
  ELSE LET ship == assigned[k]
           atDocking == cumulativeDelay + NavigatingDelay
           atDocked == atDocking + DockingDelay
       IN << Timer("navigating", ship.id, ship.assignedBerthId, cumulativeDelay),
             Timer("docking", ship.id, ship.assignedBerthId, atDocking),
             Timer("docked", ship.id, ship.assignedBerthId, atDocked) >>
          \o ScheduledTimers(assigned, k + 1, atDocked + BufferDelay)

\* { ...b, isOccupied: true, currentShipId: ship.id }
OccupiedBy(b, shipId) ==
  [ id |-> b.id, zone |-> b.zone, length |-> b.length, depth10 |-> b.depth10,
    isOccupied |-> TRUE, currentShipId |-> shipId ]

\* setShips(INITIAL_SHIPS)
ResetShips ==
  [ k \in 1 .. Len(INITIAL_SHIPS) |-> ShipWithEot(INITIAL_SHIPS[k], NoTime, FALSE) ]

\* The state as the step with stepIndex === 3 finds it: the berths that were
\* occupied during the round, a simulation that runs, no callback waiting.
InitExec ==
  /\ appBerths = PORT_BERTHS(optArgs.occupied)
  /\ isSimulating = TRUE
  /\ timers = << >>

\* stepIndex === 3: the callbacks of the assigned ships and of the end of
\* the run are scheduled.
ExecutionStep ==
  /\ pc = "applied"
  /\ pc' = "execution"
  /\ timers' = ScheduledTimers(
                 SortByStartTime(AssignedShipsOf(optShips, optArgs.processingShipIds)),
                 1, 0)
  /\ UNCHANGED <<optShips, appBerths, isSimulating, exceptExec>>

\* if (s.id === ship.id && s.assignedBerthId) return { ...s, status: 'navigating' }
NavigatingTimer ==
  /\ timers # << >>
  /\ Head(timers).kind = "navigating"
  /\ timers' = Tail(timers)
  /\ optShips' =
       [ k \in 1 .. Len(optShips) |->
           IF optShips[k].id = Head(timers).shipId
              /\ optShips[k].assignedBerthId # NoBerth
             THEN [ optShips[k] EXCEPT !.status = "navigating" ]
             ELSE optShips[k] ]
  /\ UNCHANGED <<pc, appBerths, isSimulating, exceptExec>>

\* if (s.id === ship.id && s.status === 'navigating') status: 'docking', and
\* if (b.id === ship.assignedBerthId) { ...b, isOccupied: true, ... }
DockingTimer ==
  /\ timers # << >>
  /\ Head(timers).kind = "docking"
  /\ timers' = Tail(timers)
  /\ optShips' =
       [ k \in 1 .. Len(optShips) |->
           IF optShips[k].id = Head(timers).shipId
              /\ optShips[k].status = "navigating"
             THEN [ optShips[k] EXCEPT !.status = "docking" ]
             ELSE optShips[k] ]
  /\ appBerths' =
       [ k \in 1 .. Len(appBerths) |->
           IF appBerths[k].id = Head(timers).berthId
             THEN OccupiedBy(appBerths[k], Head(timers).shipId)
             ELSE appBerths[k] ]
  /\ UNCHANGED <<pc, isSimulating, exceptExec>>

\* if (s.id === ship.id && s.status === 'docking') status: 'docked'
DockedTimer ==
  /\ timers # << >>
  /\ Head(timers).kind = "docked"
  /\ timers' = Tail(timers)
  /\ optShips' =
       [ k \in 1 .. Len(optShips) |->
           IF optShips[k].id = Head(timers).shipId
              /\ optShips[k].status = "docking"
             THEN [ optShips[k] EXCEPT !.status = "docked" ]
             ELSE optShips[k] ]
  /\ UNCHANGED <<pc, appBerths, isSimulating, exceptExec>>

\* The last callback: setIsSimulating(false); the efficiency, the agents,
\* the step index and the selection it also sets are not part of the state.
EndOfRunTimer ==
  /\ timers # << >>
  /\ Head(timers).kind = "end"
  /\ timers' = Tail(timers)
  /\ isSimulating' = FALSE
  /\ UNCHANGED <<pc, optShips, appBerths, exceptExec>>

\* handleReset: setIsSimulating(false), setShips(INITIAL_SHIPS),
\* setBerths(PORT_BERTHS); no callback is cancelled.  The resets that are
\* followed are those of the execution phase and after.
HandleReset ==
  /\ pc \in {"execution", "reset", "restarted"}
  /\ pc' = "reset"
  /\ isSimulating' = FALSE
  /\ optShips' = ResetShips
  /\ appBerths' = PORT_BERTHS({})
  /\ UNCHANGED <<timers, exceptExec>>

\* handleStartAuto: if (isSimulating) return; if no ship waits, return;
\* setIsSimulating(true).  The steps of the new round are not followed.
HandleStartAuto ==
  /\ pc \in {"execution", "reset", "restarted"}
  /\ ~isSimulating
  /\ \E k \in 1 .. Len(optShips) : optShips[k].status = "waiting"
  /\ pc' = "restarted"
  /\ isSimulating' = TRUE
  /\ UNCHANGED <<optShips, appBerths, timers, exceptExec>>

NextExec ==
  \/ NextOpt
  \/ ExecutionStep
  \/ NavigatingTimer
  \/ DockingTimer
  \/ DockedTimer
  \/ EndOfRunTimer
  \/ HandleReset
  \/ HandleStartAuto

-----------------------------------------------------------------------------
(* Idle values of the components a specification does not exercise          *)

IdleETA == etaArgs = None /\ etaResult = None
IdleEOT == eotArgs = None /\ eotResult = None
IdleVSP == vspArgs = None /\ vspResult = None
IdleSlots == slotArgs = None /\ candidates = None
IdleDetect == detectArgs = None /\ conflictInfo = None
IdlePareto == paretoArgs = None /\ paretoFront = None
IdleReverse == reverseArgs = None /\ reverseResult = None
IdleOpt == optArgs = None /\ optShips = None
IdleExec == appBerths = None /\ isSimulating = None /\ timers = None
IdleVNS ==
  /\ vnsArgs = None /\ initialSolution = None /\ currentSolution = None
  /\ currentIsInitial = None /\ bestSolution = None /\ iter = None
  /\ vnsResult = None

-----------------------------------------------------------------------------
(* Specifications: one per component; the components a specification     *)
(* does not exercise stay idle.                                             *)

StartETA ==
  /\ pc = "start"
  /\ InitETA
  /\ IdleEOT
  /\ IdleVSP
  /\ IdleSlots
  /\ IdleDetect
  /\ IdleVNS
  /\ IdlePareto
  /\ IdleReverse
  /\ IdleOpt
  /\ IdleExec
SpecETA == StartETA /\ [][CorrectETA]_vars

StartEOT ==
  /\ pc = "start"
  /\ IdleETA
  /\ InitEOT
  /\ IdleVSP
  /\ IdleSlots
  /\ IdleDetect
  /\ IdleVNS
  /\ IdlePareto
  /\ IdleReverse
  /\ IdleOpt
  /\ IdleExec
SpecEOT == StartEOT /\ [][CalculateEOT]_vars

StartVSP ==
  /\ pc = "start"
  /\ IdleETA
  /\ IdleEOT
  /\ InitVSP
  /\ IdleSlots
  /\ IdleDetect
  /\ IdleVNS
  /\ IdlePareto
  /\ IdleReverse
  /\ IdleOpt
  /\ IdleExec
SpecVSP == StartVSP /\ [][CalculateVSP]_vars

StartSlots ==
  /\ pc = "start"
  /\ IdleETA
  /\ IdleEOT
  /\ IdleVSP
  /\ InitSlots
  /\ IdleDetect
  /\ IdleVNS
  /\ IdlePareto
  /\ IdleReverse
  /\ IdleOpt
  /\ IdleExec
SpecSlots == StartSlots /\ [][GenerateCandidateBerthSlots]_vars

StartDetect ==
  /\ pc = "start"
  /\ IdleETA
  /\ IdleEOT
  /\ IdleVSP
  /\ IdleSlots
  /\ InitDetect
  /\ IdleVNS
  /\ IdlePareto
  /\ IdleReverse
  /\ IdleOpt
  /\ IdleExec
SpecDetect == StartDetect /\ [][NextDetect]_vars

StartVNS ==
  /\ pc = "swap"
  /\ IdleETA
  /\ IdleEOT
  /\ IdleVSP
  /\ IdleSlots
  /\ IdleDetect
  /\ InitVNS
  /\ IdlePareto
  /\ IdleReverse
  /\ IdleOpt
  /\ IdleExec
SpecVNS == StartVNS /\ [][NextVNS]_vars

StartReverse ==
  /\ pc = "start"
  /\ IdleETA
  /\ IdleEOT
  /\ IdleVSP
  /\ IdleSlots
  /\ IdleDetect
  /\ IdleVNS
  /\ IdlePareto
  /\ InitReverse
  /\ IdleOpt
  /\ IdleExec
SpecReverse == StartReverse /\ [][ReverseOperator]_vars

StartOpt ==
  /\ pc = "matching"
  /\ IdleETA
  /\ IdleEOT
  /\ IdleVSP
  /\ IdleSlots
  /\ IdleDetect
  /\ IdleVNS
  /\ IdlePareto
  /\ IdleReverse
  /\ InitOpt
  /\ IdleExec
SpecOpt == StartOpt /\ [][NextOpt]_vars

StartExec ==
  /\ pc = "matching"
  /\ IdleETA
  /\ IdleEOT
  /\ IdleVSP
  /\ IdleSlots
  /\ IdleDetect
  /\ IdleVNS
  /\ IdlePareto
  /\ IdleReverse
  /\ InitOpt
  /\ InitExec
SpecExec == StartExec /\ [][NextExec]_vars

StartPareto ==
  /\ pc = "start"
  /\ IdleETA
  /\ IdleEOT
  /\ IdleVSP
  /\ IdleSlots
  /\ IdleDetect
  /\ IdleVNS
  /\ InitPareto
  /\ IdleReverse
  /\ IdleOpt
  /\ IdleExec
SpecPareto == StartPareto /\ [][CalculateParetoFront]_vars

-----------------------------------------------------------------------------
(* Claims about the perception stage                                       *)

\* C7 (as stated): the EOT returned by calculateEOT is never earlier, as a
\* time of day, than the corrected ETA it was derived from.
C7_EOTNotBeforeCorrectedETA ==
  pc = "done" =>
    ParseMinutes(eotResult.eot) >= ParseMinutes(eotArgs.correctedETA)

\* C7 (amended): the EOT is the corrected ETA plus inspection and pilotage
\* preparation (30 to 85 minutes together) wrapped at 24:00: it is not
\* earlier than the corrected ETA when the sum stays before midnight, and
\* it is the sum minus 24h, an earlier time of day, when it does not.
C7_EOTIsETAPlusOverheadWrapped ==
  pc = "done" =>
    LET c == ParseMinutes(eotArgs.correctedETA)
        d == eotResult.inspectionTime + eotResult.pilotPrepTime
        e == ParseMinutes(eotResult.eot)
    IN /\ d \in 30 .. 85
       /\ eotResult.eot[1] \in 0 .. 23 /\ eotResult.eot[2] \in 0 .. 59
       /\ (c + d < MinutesPerDay => e = c + d /\ e >= c)
       /\ (c + d >= MinutesPerDay => e = c + d - MinutesPerDay /\ e < c)

C7_Witness ==
  /\ pc = "done"
  /\ eotArgs.correctedETA = <<11, 40>>
  /\ eotArgs.shipType = TANKER /\ eotArgs.shipLength = 399
  /\ eotResult.eot = <<13, 5>>

\* C8: correctETA returns a valid time of day (hour 0..23, minute 0..59)
\* equal to declared time + total bias modulo 24h (whole minutes), also
\* when the total falls before 00:00 or after 23:59.
C8_CorrectedETAIsWrappedTimeOfDay ==
  pc = "done" =>
    LET total10 == ParseMinutes(etaArgs.originalETA) * 10 + etaResult.bias10
        h == etaResult.correctedETA[1]
        m == etaResult.correctedETA[2]
    IN /\ h \in 0 .. 23
       /\ m \in 0 .. 59
       /\ h * 60 + m = (total10 \div 10) % MinutesPerDay

-----------------------------------------------------------------------------
(* Claims about candidate slot generation                                  *)

SlotBerths == PortBerths(slotArgs.isOccupied)
BerthOfSlot(c) == CHOOSE b \in {SlotBerths[k] : k \in 1 .. Len(SlotBerths)} :
                    b.id = c.berthId

\* C5: no candidate has berth.length < 1.1 * vessel.length, no candidate of
\* a tanker is on a berth outside zone A, and a vessel with draft > 15 gets
\* an empty candidate list.
C5_CandidatesRespectLengthZoneDraft ==
  pc = "done" =>
    /\ \A k \in 1 .. Len(candidates) :
         LET b == BerthOfSlot(candidates[k])
         IN /\ ~(10 * b.length < 11 * slotArgs.ship.length)
            /\ (slotArgs.ship.type = TANKER => b.zone = "A")
    /\ (slotArgs.ship.draft10 > 150 => candidates = << >>)

\* A tanker that is short enough for B01 gets A01 only.
C5_Witness ==
  /\ pc = "done"
  /\ slotArgs.ship.type = TANKER
  /\ slotArgs.ship.length = 137
  /\ slotArgs.ship.draft10 = 125
  /\ Len(candidates) = 1
  /\ candidates[1].berthId = "A01"

\* The tide sample nearest to `hours` in absolute hour difference, the first
\* one in table order among equally near ones.
NearestTideSample(hours) ==
  LET dist(i) == Abs(TIDE_DATA[i].time[1] - hours)
      i0 == CHOOSE i \in 1 .. Len(TIDE_DATA) :
              /\ \A j \in 1 .. Len(TIDE_DATA) : dist(i) <= dist(j)
              /\ \A j \in 1 .. i - 1 : dist(j) > dist(i)
  IN TIDE_DATA[i0]

\* C6: every candidate is depth-feasible at its own start time:
\* berth.depth + height(T) >= draft + 1.0 for the tide sample T nearest to
\* the hour of the candidate start (first in table order on ties), and a
\* berth that fails this test at the start tried on it yields no candidate.
C6_CandidatesDepthFeasibleAtStart ==
  pc = "done" =>
    /\ \A k \in 1 .. Len(candidates) :
         LET c == candidates[k]
             T == NearestTideSample(c.startTime[1])
         IN /\ BerthOfSlot(c).depth10 + T.height10 >= slotArgs.ship.draft10 + 10
            /\ c.tideWindow.feasible
            /\ c.tideWindow.height10 = T.height10
    /\ \A n \in 1 .. Len(SlotBerths) :
         LET b == SlotBerths[n]
             T == NearestTideSample(
                    SlotStart(slotArgs.ship, b, slotArgs.occupiedSlots)[1])
         IN b.depth10 + T.height10 < slotArgs.ship.draft10 + 10
              => \A k \in 1 .. Len(candidates) : candidates[k].berthId # b.id

\* EOT 07:00 is as near to the 06:00 sample (2.1 m) as to the 08:00 one
\* (3.5 m): with draft 12.5 m the C01 berth (10 m) fails on the first and is
\* dropped, while B01 and A01 are kept.
C6_Witness ==
  /\ pc = "done"
  /\ slotArgs.ship.type = CONTAINER
  /\ slotArgs.ship.length = 120
  /\ slotArgs.ship.draft10 = 125
  /\ slotArgs.ship.earliestOperationTime = <<7, 0>>
  /\ slotArgs.occupiedSlots = << >>
  /\ Len(candidates) = 2
  /\ candidates[1].berthId = "A01" /\ candidates[1].tideWindow.height10 = 21
  /\ candidates[2].berthId = "B01"

\* A time field is a time of day HH:MM.
IsTimeOfDay(t) == t[1] \in 0 .. 23 /\ t[2] \in 0 .. 59

\* C13: a vessel whose time field is not an HH:MM time of day, or whose
\* draft is out of range, gets an empty candidate list.
C13_MalformedVesselGetsNoCandidates ==
  ( /\ pc = "done"
    /\ \/ ~IsTimeOfDay(EotTimeOf(slotArgs.ship))
       \/ DraftTooDeep(slotArgs.ship.draft10) )
    => candidates = << >>

\* The end of the interval the occupancy map has for a berth, as HH:MM.
OccupancyEnd(b) ==
  << slotArgs.occupiedSlots[b.id].end \div 60,
     slotArgs.occupiedSlots[b.id].end % 60 >>

C25_EndIsStartPlusDuration ==
  pc = "done" =>
    \A k \in 1 .. Len(candidates) :
      ParseMinutes(candidates[k].endTime)
        = ( ParseMinutes(candidates[k].startTime)
              + 60 * Max(4, (slotArgs.ship.length + 49) \div 50) ) % (24 * 60)

\* C28: no candidate starts before the vessel's EOT.
C28_NoCandidateBeforeEOT ==
  pc = "done" =>
    \A k \in 1 .. Len(candidates) :
      ParseMinutes(candidates[k].startTime)
        >= ParseMinutes(EotTimeOf(slotArgs.ship))

-----------------------------------------------------------------------------
(* Claims about conflict detection                                         *)

Scheduled == ShipsWithSchedule(detectArgs.ships)

\* The half-open intervals [start, start + duration) of two ships share a
\* point of time (their bounds are whole hours).
IntervalsIntersect(sh1, sh2) ==
  \E t \in -2 .. 30 :
    /\ sh1.gantt.startTime <= t /\ t < sh1.gantt.startTime + sh1.gantt.duration
    /\ sh2.gantt.startTime <= t /\ t < sh2.gantt.startTime + sh2.gantt.duration

ReportsFor(kind, sh1, sh2) ==
  { k \in 1 .. Len(conflictInfo.conflicts) :
      /\ conflictInfo.conflicts[k].conflictType = kind
      /\ {conflictInfo.conflicts[k].ship1, conflictInfo.conflicts[k].ship2}
           = {sh1.id, sh2.id} }

\* C3: for any two scheduled vessels that both use the deep channel and
\* whose intervals intersect, the report contains a channel_collision
\* conflict for that pair (deep capacity 1).
C3_DeepOverlapReportedAsCollision ==
  (pc = "done" /\ ~conflictInfo.threw) =>
    \A i, j \in 1 .. Len(Scheduled) :
      ( /\ i < j
        /\ Scheduled[i].gantt.channelSlot = "Deep"
        /\ Scheduled[j].gantt.channelSlot = "Deep"
        /\ IntervalsIntersect(Scheduled[i], Scheduled[j]) )
        => ReportsFor("channel_collision", Scheduled[i], Scheduled[j]) # {}

\* C4: a berth_overlap conflict, of severity high, is reported for an
\* unordered pair of scheduled vessels if and only if both have the same
\* assigned berth and their intervals intersect; intervals that only touch
\* give none.
C4_BerthOverlapIffSameBerthAndIntersect ==
  (pc = "done" /\ ~conflictInfo.threw) =>
    /\ \A i, j \in 1 .. Len(Scheduled) :
         i < j =>
           ( ReportsFor("berth_overlap", Scheduled[i], Scheduled[j]) # {}
               <=> /\ Scheduled[i].assignedBerthId = Scheduled[j].assignedBerthId
                   /\ IntervalsIntersect(Scheduled[i], Scheduled[j]) )
    /\ \A k \in 1 .. Len(conflictInfo.conflicts) :
         conflictInfo.conflicts[k].conflictType = "berth_overlap" =>
           /\ conflictInfo.conflicts[k].severity = "high"
           /\ \E i, j \in 1 .. Len(Scheduled) :
                /\ i < j
                /\ conflictInfo.conflicts[k].ship1 = Scheduled[i].id
                /\ conflictInfo.conflicts[k].ship2 = Scheduled[j].id

\* Two vessels on B01 with [0,4) and [2,6) and a third on B01 at [4,8): the
\* first pair and the pair [2,6), [4,8) are reported, the touching pair
\* [0,4), [4,8) is not.
C4_Witness ==
  /\ pc = "done"
  /\ ~conflictInfo.threw
  /\ Len(detectArgs.ships) = 3
  /\ \A k \in 1 .. 3 :
       /\ detectArgs.ships[k].gantt # NoGantt
       /\ detectArgs.ships[k].assignedBerthId = "B01"
       /\ detectArgs.ships[k].gantt.duration = 4
       /\ detectArgs.ships[k].gantt.startTime = 2 * (k - 1)
  /\ ReportsFor("berth_overlap", detectArgs.ships[1], detectArgs.ships[2]) # {}
  /\ ReportsFor("berth_overlap", detectArgs.ships[1], detectArgs.ships[3]) = {}

\* C12: detectChannelConflicts never raises: every call returns a report,
\* also for start times at the end of the 24h horizon.
C12_DetectNeverRaises ==
  pc \in {"done", "again"} => ~conflictInfo.threw

OverlapSlot(sh1, sh2) ==
  LET lo == Max(sh1.gantt.startTime, sh2.gantt.startTime)
      hi == Min(sh1.gantt.startTime + sh1.gantt.duration,
                sh2.gantt.startTime + sh2.gantt.duration)
  IN ((lo + hi) * detectArgs.timeSlots) \div (2 * 24)

\* C23: every cell of the occupancy matrix counts the pairs of scheduled
\* vessels of its channel whose intervals intersect and whose overlap has
\* its midpoint in the time slot of the cell.
C23_MatrixCountsOverlapMidpoints ==
  (pc = "done" /\ ~conflictInfo.threw) =>
    \A t \in 0 .. detectArgs.timeSlots - 1, c \in 0 .. 1 :
      conflictInfo.conflictMatrix[t][c] =
        Cardinality({ pr \in (1 .. Len(Scheduled)) \X (1 .. Len(Scheduled)) :
                        /\ pr[1] < pr[2]
                        /\ Scheduled[pr[1]].gantt.channelSlot
                             = Scheduled[pr[2]].gantt.channelSlot
                        /\ (Scheduled[pr[1]].gantt.channelSlot = "Deep") = (c = 0)
                        /\ IntervalsIntersect(Scheduled[pr[1]], Scheduled[pr[2]])
                        /\ OverlapSlot(Scheduled[pr[1]], Scheduled[pr[2]]) = t })

\* The unordered pairs a report gives as channel collisions.
CollisionPairs(info) ==
  { {info.conflicts[k].ship1, info.conflicts[k].ship2} :
      k \in { n \in 1 .. Len(info.conflicts) :
                info.conflicts[n].conflictType = "channel_collision" } }

\* The orders in which the vessels of the call can be listed.
ShipOrders ==
  { f \in [1 .. Len(detectArgs.ships) -> 1 .. Len(detectArgs.ships)] :
      \A a, b \in 1 .. Len(detectArgs.ships) : a # b => f[a] # f[b] }

\* C29: the set of unordered pairs reported as channel_collision is the
\* same for every order in which the same vessels are listed.
C29_CollisionPairsOrderIndependent ==
  (pc = "done" /\ ~conflictInfo.threw) =>
    \A f \in ShipOrders :
      CollisionPairs(
        detectChannelConflicts(
          [ k \in 1 .. Len(detectArgs.ships) |-> detectArgs.ships[f[k]] ],
          detectArgs.timeSlots, detectArgs.channels))
        = CollisionPairs(conflictInfo)

-----------------------------------------------------------------------------
(* Claims about the variable neighbourhood search                          *)

\* Ten times (efficiency - 0.1 cost) of a start-time map over the ships of
\* the run: the sum over the ships of 10 p (24 - t) - t.
RECURSIVE ObjectiveUpTo(_, _)
ObjectiveUpTo(startTimes, n) ==
  IF n = 0 THEN 0
  ELSE LET sh == vnsArgs.ships[n]
           t == IF sh.id \in DOMAIN startTimes THEN startTimes[sh.id] ELSE 0
       IN ObjectiveUpTo(startTimes, n - 1) + 10 * sh.priority * (24 - t) - t
ObjectiveOver(startTimes) == ObjectiveUpTo(startTimes, Len(vnsArgs.ships))

\* C1: the solution returned by variableNeighborhoodSearch has an objective
\* value, computed over its own start times, that is not lower than that of
\* the initial solution.
C1_ReturnedNotWorseThanInitial ==
  pc = "done" =>
    ObjectiveOver(vnsResult.startTimes)
      >= ObjectiveOver(vnsArgs.initialSolution.startTimes)

\* A run of two iterations over three ships in which an insert move
\* replaced the current solution.
C1_Witness ==
  /\ pc = "done"
  /\ Len(vnsArgs.ships) = 3
  /\ iter = 2
  /\ ~currentIsInitial
  /\ currentSolution.startTimes # vnsArgs.initialSolution.startTimes
  /\ DOMAIN vnsResult.assignments = {"S002", "S005"}

\* No two ships of the run are assigned the same berth with intersecting
\* intervals [start, start + 4h).
NoSameBerthOverlap(solution) ==
  \A i, j \in 1 .. Len(vnsArgs.ships) :
    LET a == vnsArgs.ships[i].id
        b == vnsArgs.ships[j].id
    IN ( /\ i < j
         /\ a \in DOMAIN solution.assignments
         /\ b \in DOMAIN solution.assignments
         /\ solution.assignments[a] = solution.assignments[b] )
       => LET ta == StartTimeOf(solution.startTimes, a)
              tb == StartTimeOf(solution.startTimes, b)
          IN ~ \E t \in 0 .. 30 : ta <= t /\ t < ta + 4 /\ tb <= t /\ t < tb + 4

\* C2: in a run that starts from an initial solution without same-berth
\* overlaps, every solution that becomes the current solution has none.
C2_CurrentSolutionNeverOverlaps ==
  NoSameBerthOverlap(vnsArgs.initialSolution)
    => NoSameBerthOverlap(currentSolution)

\* C11: a run of variableNeighborhoodSearch never raises an error, whatever
\* the vessel list (the empty list included), the initial solution and the
\* iteration budget.
C11_VNSNeverRaises == pc # "error"

\* Giving ship `id` the start time t makes its interval [t, t + 4h)
\* intersect that of another ship of the run on the same berth.
MoveCreatesOverlap(solution, id, t) ==
  \E k \in 1 .. Len(vnsArgs.ships) :
    LET other == vnsArgs.ships[k].id
    IN /\ other # id
       /\ id \in DOMAIN solution.assignments
       /\ other \in DOMAIN solution.assignments
       /\ solution.assignments[other] = solution.assignments[id]
       /\ LET u == StartTimeOf(solution.startTimes, other)
          IN \E h \in 0 .. 30 : t <= h /\ h < t + 4 /\ u <= h /\ h < u + 4

\* C16: insertOperator returns null for every move of a vessel to a start
\* time at which its 4-hour interval intersects that of another scheduled
\* vessel on the same berth.
C16_InsertRejectsSameBerthOverlap ==
  pc = "insert" =>
    \A r \in 1 .. Len(vnsArgs.ships), t \in InsertTimes :
      MoveCreatesOverlap(currentSolution, vnsArgs.ships[r].id, t)
        => insertOperator(currentSolution, vnsArgs.ships[r], t, VnsBerths)
             = NullSolution

\* C17: the returned solution is at least as good as every solution that
\* was the current solution during the run; the last current solution is
\* one of them.
C17_ReturnedIsBestSeen ==
  pc = "done" =>
    ObjectiveOver(vnsResult.startTimes)
      >= ObjectiveOver(currentSolution.startTimes)

\* C18: the fields of the returned solution are those of its own start
\* times: efficiency = sum of priority (24 - start), cost = sum of start,
\* objectiveValue = efficiency - 0.1 cost.
C18_ReturnedFieldsMatchStartTimes ==
  pc = "done" =>
    /\ vnsResult.efficiency = EfficiencyFrom(vnsResult.startTimes, vnsArgs.ships, 1)
    /\ vnsResult.cost = CostFrom(vnsResult.startTimes, vnsArgs.ships, 1)
    /\ vnsResult.objectiveValue10 = ObjectiveOver(vnsResult.startTimes)

\* C19: the solution object passed by the caller is, at every point of the
\* run, as it was passed: maps and fields.
C19_InitialSolutionUnchanged ==
  pc \in {"swap", "insert", "done"} => initialSolution = vnsArgs.initialSolution

\* The berth a ship of the run has in the current solution, NoBerth when
\* it has none.
CurrentBerth(id) ==
  IF id \in DOMAIN currentSolution.assignments
    THEN currentSolution.assignments[id] ELSE NoBerth
BerthLength(berthId) == FindBerth(VnsBerths, berthId).length

\* The swap of ships i and j of the run must be rejected: one of them has no
\* berth, one is longer than 1/1.1 of the berth it would get, or one has a
\* draft above 15 m.
SwapMustBeRejected(i, j) ==
  LET s1 == vnsArgs.ships[i]
      s2 == vnsArgs.ships[j]
  IN \/ CurrentBerth(s1.id) = NoBerth
     \/ CurrentBerth(s2.id) = NoBerth
     \/ 10 * BerthLength(CurrentBerth(s1.id)) < 11 * s2.length
     \/ 10 * BerthLength(CurrentBerth(s2.id)) < 11 * s1.length
     \/ s1.draft10 > 150
     \/ s2.draft10 > 150

\* C21: swapOperator returns null exactly when a vessel has no berth, a
\* vessel's length times 1.1 exceeds the length of the berth it would get,
\* or a draft exceeds 15; otherwise the result has the berths of the two
\* vessels exchanged and every other assignment and every start time as
\* before.
C21_SwapExchangesOrRejects ==
  pc \in {"swap", "insert"} =>
    \A i, j \in 1 .. Len(vnsArgs.ships) :
      i < j =>
        LET s1 == vnsArgs.ships[i]
            s2 == vnsArgs.ships[j]
            r == swapOperator(currentSolution, s1, s2, VnsBerths)
        IN IF SwapMustBeRejected(i, j) THEN r = NullSolution
           ELSE /\ r # NullSolution
                /\ DOMAIN r.assignments = DOMAIN currentSolution.assignments
                /\ r.assignments[s1.id] = currentSolution.assignments[s2.id]
                /\ r.assignments[s2.id] = currentSolution.assignments[s1.id]
                /\ \A id \in DOMAIN r.assignments \ {s1.id, s2.id} :
                     r.assignments[id] = currentSolution.assignments[id]
                /\ r.startTimes = currentSolution.startTimes

\* After the swap neighbourhood of a run over S002 (200 m) on C01, S005
\* (120 m) on A01 and S001 (draft 16.5 m) on A01: S002 and S005 can exchange
\* their berths, and the swaps with S001 are rejected.
C21_Witness ==
  /\ pc = "insert"
  /\ Len(vnsArgs.ships) = 3
  /\ CurrentBerth("S002") = "C01"
  /\ CurrentBerth("S005") = "A01"
  /\ CurrentBerth("S001") = "A01"
  /\ swapOperator(currentSolution, vnsArgs.ships[1], vnsArgs.ships[2], VnsBerths)
       .assignments["S002"] = "A01"
  /\ swapOperator(currentSolution, vnsArgs.ships[2], vnsArgs.ships[3], VnsBerths)
       = NullSolution

\* C26: the solution returned by variableNeighborhoodSearch has exactly the
\* assignment map and the start-time map of the initial solution, whatever
\* the random draws.
C26_ReturnedMapsAreInitialMaps ==
  pc = "done" =>
    /\ vnsResult.assignments = vnsArgs.initialSolution.assignments
    /\ vnsResult.startTimes = vnsArgs.initialSolution.startTimes

\* A run over S002 on C01 and S005 on A01, whose berths can be exchanged,
\* in which an insert move became the current solution.
C26_Witness ==
  /\ pc = "done"
  /\ iter >= 1
  /\ Len(vnsArgs.ships) >= 2
  /\ "S002" \in DOMAIN vnsArgs.initialSolution.assignments
  /\ "S005" \in DOMAIN vnsArgs.initialSolution.assignments
  /\ vnsArgs.initialSolution.assignments["S002"] = "C01"
  /\ vnsArgs.initialSolution.assignments["S005"] = "A01"
  /\ currentSolution.startTimes # vnsArgs.initialSolution.startTimes

-----------------------------------------------------------------------------
(* Claims about reverseOperator                                            *)

ReverseOld(id) == StartTimeOf(reverseArgs.solution.startTimes, id)
ReverseNew(id) == StartTimeOf(reverseResult.startTimes, id)
ReverseIds == { reverseArgs.ships[k].id : k \in 1 .. Len(reverseArgs.ships) }
\* The vessels whose start time lies in the window [start, end).
InWindow == { id \in ReverseIds :
                ReverseOld(id) >= reverseArgs.startTime
                  /\ ReverseOld(id) < reverseArgs.endTime }

\* C20: reverseOperator returns null when fewer than two vessels start in
\* the window [start, end); otherwise it reverses their order (a vessel
\* that started earlier than another affected one does not start earlier
\* than it afterwards, and the k-th earliest start becomes the k-th
\* latest), keeps the multiset of their start times and leaves the start
\* times of the other vessels alone.
C20_ReverseReversesWindowOrder ==
  pc = "done" =>
    IF Cardinality(InWindow) < 2 THEN reverseResult = NullSolution
    ELSE /\ reverseResult # NullSolution
         /\ \A a, b \in InWindow :
              ReverseOld(a) < ReverseOld(b) => ReverseNew(a) >= ReverseNew(b)
         /\ \A t \in 0 .. 24 :
              Cardinality({ id \in InWindow : ReverseOld(id) = t })
                = Cardinality({ id \in InWindow : ReverseNew(id) = t })
         /\ \A id \in ReverseIds \ InWindow : ReverseNew(id) = ReverseOld(id)

-----------------------------------------------------------------------------
(* Claims about the matching and optimization steps                        *)

\* C14: a selected vessel whose candidate list is empty gets no berth:
\* it is in neither the greedy initial assignment nor the returned one,
\* and it ends the optimization step delayed and unassigned.
C14_NoCandidateVesselStaysUnassigned ==
  \A k \in 1 .. Len(INITIAL_SHIPS) :
    ( /\ pc \in {"swap", "insert", "done", "applied"}
      /\ optShips[k].id \in optArgs.processingShipIds
      /\ optShips[k].candidateBerths = << >> )
      => /\ optShips[k].id \notin DOMAIN vnsArgs.initialSolution.assignments
         /\ pc \in {"done", "applied"}
              => optShips[k].id \notin DOMAIN vnsResult.assignments
         /\ pc = "applied"
              => optShips[k].isDelayed /\ optShips[k].assignedBerthId = NoBerth

\* The berths a vessel may get, in preference order: those of its zone,
\* and for a general-zone vessel the deep berths after them.
PreferenceList(sh) ==
  IF getRecommendedZone(sh).zone = "B"
    THEN getRecommendedZone(sh).berths \o <<"A01", "A02">>
    ELSE getRecommendedZone(sh).berths

GreedyBerth(k) ==
  LET id == vnsArgs.ships[k].id
      a == vnsArgs.initialSolution.assignments
  IN IF id \in DOMAIN a THEN a[id] ELSE NoBerth

\* The berths that are occupied or given to a vessel before the k-th.
TakenBefore(k) ==
  optArgs.occupied \cup ({ GreedyBerth(j) : j \in 1 .. k - 1 } \ {NoBerth})

\* C22: the greedy initial assignment takes the selected vessels in
\* descending priority and gives each the first berth of its preference
\* list that is neither occupied nor given to an earlier vessel, and none
\* when there is no such berth; so no berth goes to two vessels and no
\* occupied berth is assigned.
C22_GreedyIsPriorityFirstFit ==
  pc \in {"swap", "insert", "done", "applied"} =>
    LET batch == vnsArgs.ships
    IN /\ { batch[k].id : k \in 1 .. Len(batch) } = optArgs.processingShipIds
       /\ Len(batch) = Cardinality(optArgs.processingShipIds)
       /\ \A k \in 1 .. Len(batch) - 1 : batch[k].priority >= batch[k + 1].priority
       /\ \A k \in 1 .. Len(batch) :
            LET pref == PreferenceList(batch[k])
                free == { n \in 1 .. Len(pref) : pref[n] \notin TakenBefore(k) }
            IN IF free = {} THEN GreedyBerth(k) = NoBerth
               ELSE GreedyBerth(k) = pref[CHOOSE n \in free : \A q \in free : n <= q]
       /\ \A k, j \in 1 .. Len(batch) :
            (k # j /\ GreedyBerth(k) # NoBerth) => GreedyBerth(k) # GreedyBerth(j)
       /\ \A k \in 1 .. Len(batch) : GreedyBerth(k) \notin optArgs.occupied

\* A01 is occupied and S001 (priority 10) and S004 (priority 9) are
\* selected: S001 gets A02 and S004 is left without a berth.
C22_Witness ==
  /\ pc = "swap"
  /\ optArgs.occupied = {"A01"}
  /\ optArgs.processingShipIds = {"S001", "S004"}
  /\ vnsArgs.ships[1].id = "S001"
  /\ GreedyBerth(1) = "A02"
  /\ GreedyBerth(2) = NoBerth

-----------------------------------------------------------------------------
(* Claims about the Pareto front                                           *)

\* Input solution j is at least as good as input solution i on efficiency
\* (higher), cost (lower) and carbon emission (lower; three times the fuel
\* savings of the ships, the same for every solution) and strictly better on
\* one of them.
CarbonOfInput(i) ==
  LET ships == paretoArgs.ships
      saving(k) == IF ships[k].vspSavings10 = << >> THEN 0
                   ELSE ships[k].vspSavings10[1]
      RECURSIVE Sum(_)
      Sum(k) == IF k = 0 THEN 0 ELSE Sum(k - 1) + 3 * saving(k)
  IN Sum(Len(ships))
BetterInput(j, i) ==
  LET a == paretoArgs.solutions[j]
      b == paretoArgs.solutions[i]
  IN /\ a.efficiency >= b.efficiency
     /\ a.cost <= b.cost
     /\ CarbonOfInput(j) <= CarbonOfInput(i)
     /\ (a.efficiency > b.efficiency \/ a.cost < b.cost
           \/ CarbonOfInput(j) < CarbonOfInput(i))
NonDominatedInputs ==
  { i \in 1 .. Len(paretoArgs.solutions) :
      ~ \E j \in 1 .. Len(paretoArgs.solutions) : j # i /\ BetterInput(j, i) }

\* C10: calculateParetoFront returns exactly the non-dominated solutions of
\* its input, each once and in input order, with its own efficiency and
\* cost; a non-empty input gives a non-empty result.
C10_ParetoFrontIsNonDominatedSet ==
  pc = "done" =>
    /\ { paretoFront[k].solution : k \in 1 .. Len(paretoFront) } = NonDominatedInputs
    /\ Len(paretoFront) = Cardinality(NonDominatedInputs)
    /\ \A k \in 1 .. Len(paretoFront) - 1 :
         paretoFront[k].solution < paretoFront[k + 1].solution
    /\ \A k \in 1 .. Len(paretoFront) :
         /\ paretoFront[k].efficiency
              = paretoArgs.solutions[paretoFront[k].solution].efficiency
         /\ paretoFront[k].cost
              = paretoArgs.solutions[paretoFront[k].solution].cost
    /\ (Len(paretoArgs.solutions) > 0 => Len(paretoFront) > 0)

\* Three inputs: the first dominated by the second, the second and the third
\* equal, so that neither dominates the other and both are returned.
C10_Witness ==
  /\ pc = "done"
  /\ Len(paretoArgs.solutions) = 3
  /\ paretoArgs.solutions[1] = [efficiency |-> 100, cost |-> 10]
  /\ paretoArgs.solutions[2] = [efficiency |-> 200, cost |-> 5]
  /\ paretoArgs.solutions[3] = [efficiency |-> 200, cost |-> 5]
  /\ Len(paretoFront) = 2
  /\ paretoFront[1].solution = 2
  /\ paretoFront[2].solution = 3


-----------------------------------------------------------------------------
(* Claims about the execution step and Reset                               *)

\* C30: from handleReset until the user starts a new simulation, every
\* berth is unoccupied and every ship has status waiting, whichever of the
\* callbacks of the execution step still run in between.
C30_ResetStateHolds ==
  pc = "reset" =>
    /\ \A k \in 1 .. Len(appBerths) : ~appBerths[k].isOccupied
    /\ \A k \in 1 .. Len(optShips) : optShips[k].status = "waiting"

=============================================================================
